---- MODULE Spec2Model ----
(***************************************************************************)
(* Temp-file sweep of PC_Cleanup_Master, and the windows that start it.    *)
(*                                                                         *)
(*   V1: PCCleanupTool.clean_temp_files / _clean_directory_recursive /     *)
(*       safe_delete_file / is_file_in_use            (main.py)            *)
(*   V2: V2CleanupEngine._cleanup_temp_files          (v2_core_engine.py)  *)
(*   GUI: ModernPCCleanupGUI (gui_app.py), V2ModernUI (v2_modern_ui.py),   *)
(*        V2CleanupEngine.perform_one_click_cleanup                        *)
(*                                                                         *)
(* Spec runs one sweep operation once, SpecCalls calls clean_temp_files    *)
(* repeatedly on one instance, SpecGui runs a window and its worker thread.*)
(*                                                                         *)
(* Every system call of the sweep (stat, rename, unlink, listdir) is one   *)
(* step, so that another process can remove a file between two of them.    *)
(***************************************************************************)
EXTENDS Integers, Sequences, FiniteSets, TLC

\* ------------------------------------------------------------------ bounds

\* Number of nested subdirectory levels below the deep temp root.
TreeDepth == 4
\* At most this many disturbances by the environment in one run: an entry that
\* is locked, undeletable or unreadable, or a file another process removes.
MaxDisturbances == 1
\* At most this many calls of clean_temp_files on one PCCleanupTool instance.
MaxCalls == 2
\* At most this many start requests (presses of the cleanup button) in a run
\* of a window.
MaxStartRequests == 3

\* default of the max_depth parameter of _clean_directory_recursive
DefaultMaxDepth == 3

\* ------------------------------------------------------------- file system

\* Physical root directories: "A" is the user's temp folder (a chain of nested
\* subdirectories, one file in each), "B" is C:/Windows/Temp (one file), "W"
\* is the working directory of the process (one file).
RootDirs == {"A", "B", "W"}

DepthOf(r) == IF r = "A" THEN TreeDepth ELSE 0

\* lvl is the depth of the entry: 0 = a direct child of the root. The root
\* itself is the directory of lvl -1.
File(r, k) == [root |-> r, lvl |-> k, kind |-> "file"]
Dir(r, k) == [root |-> r, lvl |-> k, kind |-> "dir"]
Root(r) == Dir(r, -1)

Files == {n \in [root : RootDirs, lvl : 0..TreeDepth, kind : {"file"}] :
            n.lvl <= DepthOf(n.root)}

Dirs == {n \in [root : RootDirs, lvl : -1..(TreeDepth - 1), kind : {"dir"}] :
           n.lvl < DepthOf(n.root)}

Nodes == Files \cup Dirs

ChildrenOf(d) == {n \in Nodes : n.root = d.root /\ n.lvl = d.lvl + 1}

\* st_size of a file: distinct powers of two, so that a sum of sizes tells
\* which files were summed.
SizeOf(f) == IF f.root = "A" THEN 2 ^ f.lvl
             ELSE IF f.root = "B" THEN 2 ^ (TreeDepth + 1)
             ELSE 2 ^ (TreeDepth + 2)

RECURSIVE SumSizes(_)
SumSizes(S) == IF S = {} THEN 0
               ELSE LET f == CHOOSE x \in S : TRUE
                    IN SizeOf(f) + SumSizes(S \ {f})

\* Path strings the programs hold, and the directory each names on this
\* machine. Two spellings name the user's temp folder.
HomeTemp == "~/AppData/Local/Temp"
HomeTempShort == "C:/Users/U~1/AppData/Local/Temp"
WinTemp == "C:/Windows/Temp"
Prefetch == "C:/Windows/Prefetch"
MissingPath == "C:/Missing"
\* Path('') is the path '.', the working directory.
EmptyPath == ""

NoNode == [root |-> "none", lvl |-> -1, kind |-> "none"]

Resolve(p) == IF p \in {HomeTemp, HomeTempShort} THEN Root("A")
              ELSE IF p = WinTemp THEN Root("B")
              ELSE IF p = EmptyPath THEN Root("W")
              ELSE NoNode

\* ------------------------------------------------------------------- state

VARIABLES
  exists,         \* the files and directories present on disk
  locked,         \* files held open by another process: renaming them fails
  denied,         \* files whose unlink raises PermissionError
  unreadable,     \* entries whose stat and listing raise PermissionError
  environ,        \* os.environ: the values of TEMP and TMP
  entry,          \* the operation that is run
  pc,             \* position of the running operation
  cleanup_stats,  \* PCCleanupTool.cleanup_stats
  temp_dirs,      \* clean_temp_files: the roots still to sweep
  max_depth,      \* _clean_directory_recursive: max_depth
  stack,          \* the active calls of _clean_directory_recursive
  v2_temp_dirs,   \* _cleanup_temp_files: the roots still to walk, in order
  walk,           \* _cleanup_temp_files: the active calls of os.walk
  files_processed, files_deleted, space_freed, errors,
                  \* _cleanup_temp_files: its counters
  item,           \* the file being deleted, NoNode between two files
  file_size,      \* the size read before the delete call
  unlinked,       \* history: files the sweep's unlink removed
  rmdired,        \* history: directories the sweep's rmdir removed
  judgedLocked,   \* history: files is_file_in_use reported in use
  lockedSkips,    \* history: number of files skipped as in use
  enumerated,     \* history: entries a directory listing returned
  visited,        \* history: entries the loop body was entered for
  extRemoved,     \* history: files another process removed
  sweptRoots,     \* history: the directories swept as roots by the call
  initial_stats,  \* clean_temp_files: the copy of cleanup_stats it starts with
  result,         \* clean_temp_files: the dictionary it returned last
  calls,          \* calls of clean_temp_files the caller has yet to make
  unlinkedBefore, \* history: the files unlinked before the current call
  summary,        \* run_full_cleanup: results['summary'] of the last run
  gui,            \* the window that runs: gui_app or v2_modern_ui
  ui_pc,          \* position of the foreground (Tk main loop) thread
  requests,       \* number of start requests made so far
  workers,        \* the cleanup threads created so far: each one's position
  cleanup_thread, \* self.cleanup_thread: index into workers, 0 for None
  progress_queue, \* gui_app: self.progress_queue
  after_calls,    \* the callbacks scheduled with root.after, in order
  button,         \* state of cleanup_btn / one_click_btn
  progress_shown, \* value of progress_var / progress_bar.progress
  progress_log,   \* history: percentages the workers of this run emitted
  widgetWriters,  \* history: the threads that changed a widget
  refusals,       \* history: number of start requests that were refused
  completions,    \* history: number of runs of cleanup_completed/cleanup_error
  before_state,   \* V2CleanupEngine.before_state
  after_state,    \* V2CleanupEngine.after_state
  cleanup_results,\* V2CleanupEngine.cleanup_results
  engine_pc,      \* position inside perform_one_click_cleanup
  engine_call,    \* number of the call of perform_one_click_cleanup
  engine_calls,   \* calls of perform_one_click_cleanup yet to be made
  raised,         \* the exception raised inside the current call
  propagated,     \* whether an exception left perform_one_click_cleanup
  engine_result,  \* the dictionary perform_one_click_cleanup returned
  processes,      \* names of the processes psutil.process_iter yields
  cache_present,  \* whether the cache path exists
  cache_unreadable, \* whether listing the cache path raises PermissionError
  cache_files,    \* the files below the cache path
  cache_subdir,   \* whether the subdirectory of the cache path exists
  held,           \* cache files whose unlink raises PermissionError
  force,          \* clean_browser_cache: force
  browser_pc,     \* position inside clean_browser_cache
  initial_size,   \* safe_remove_cache_directory: initial_size
  listing,        \* safe_remove_cache_directory: items iterdir has yet to yield
  files_removed,  \* safe_remove_cache_directory: files_removed
  removal,        \* what safe_remove_cache_directory returned
  browser_result, \* what clean_browser_cache returned
  browsers_cleaned, cache_size_freed,
                  \* BrowserCacheCleaner: its counters
  ranAtCheck,     \* history: the browser ran when the call checked for it
  removedByCall,  \* history: cache files the call removed
  cache_changes,  \* history: number of changes made by other processes
  heap,           \* the nested dictionaries of the branding configuration
  config,         \* BrandingManager.config: its top-level dictionary
  config_file,    \* the content of branding_config.json
  fields,         \* BrandingConfiguratorGUI: the values of its Tk variables
  branding_pc,    \* the handler of the configurator that ran last
  user_steps      \* history: number of handlers the user has run

fsVars == <<exists, locked, denied, unreadable, environ>>
histVars == <<unlinked, rmdired, judgedLocked, lockedSkips, enumerated, visited,
              extRemoved, sweptRoots>>
v1Vars == <<cleanup_stats, temp_dirs, max_depth>>
walkVars == <<stack, item, file_size>>
v2Vars == <<v2_temp_dirs, walk, files_processed, files_deleted, space_freed,
            errors>>
callVars == <<initial_stats, result, calls, unlinkedBefore, summary>>
guiVars == <<gui, ui_pc, requests, workers, cleanup_thread, progress_queue,
             after_calls, button, progress_shown, progress_log, widgetWriters,
             refusals, completions>>
sweepVars == <<fsVars, histVars, v1Vars, walkVars, v2Vars, callVars, entry,
               pc>>
engineVars == <<before_state, after_state, cleanup_results, engine_pc,
                engine_call, engine_calls, raised, propagated, engine_result>>
browserVars == <<processes, cache_present, cache_unreadable, cache_files,
                 cache_subdir, held, force, browser_pc, initial_size, listing,
                 files_removed, removal, browser_result, browsers_cleaned,
                 cache_size_freed, ranAtCheck, removedByCall, cache_changes>>
brandingVars == <<heap, config, config_file, fields, branding_pc, user_steps>>
vars == <<sweepVars, guiVars, engineVars, browserVars, brandingVars>>

Top == stack[Len(stack)]
Pop(st) == SubSeq(st, 1, Len(st) - 1)
SetTopItems(st, S) == [st EXCEPT ![Len(st)].items = S]

CountError(stats) == [stats EXCEPT !.errors_encountered = @ + 1]

\* ------------------------------------------------- V1: PCCleanupTool (main.py)

\* Mutant of IsFileInUse: the rename check is lost and no file is in use.
IsFileInUseNever(f) == FALSE

\* os.rename(filepath, filepath) raises OSError for a file another process
\* holds open, and FileNotFoundError (an OSError) for a file that is gone.
\* Renaming a file onto its own name changes nothing on disk.
RenameRaises(f) == f \notin exists \/ f \in locked

\* Mutant of IsFileInUse: only the sharing violation is caught; for a file
\* that is gone the answer is False.
IsFileInUseOnlyHeld(f) == f \in locked

\* is_file_in_use, lines 73-78: False after the rename, True from the handler
\* of OSError.
IsFileInUse(f) == IF RenameRaises(f) THEN TRUE ELSE FALSE

\* directory.iterdir() raises for a path that is no directory, that is gone
\* or that may not be read.
IterdirRaises(d) == d \notin Dirs \/ d \notin exists \/ d \in unreadable

\* Mutant of NextDepth: the recursive call passes its own depth down.
NextDepthSame(current_depth) == current_depth

\* The recursion guard of line 152 and the depth passed down at line 154.
MayDescend(current_depth, md) == current_depth < md
NextDepth(current_depth) == current_depth + 1

\* _clean_directory_recursive(directory, md, current_depth) up to the head of
\* its loop: the depth guard, then the listing, whose failure is caught and
\* counted. A call that returns at once is a frame with no items.
CleanDirectoryRecursiveCall(st, directory, md, current_depth) ==
  IF current_depth > md
  THEN /\ stack' = Append(st, [directory |-> directory, items |-> {},
                               current_depth |-> current_depth])
       /\ UNCHANGED <<cleanup_stats, enumerated>>
  ELSE IF IterdirRaises(directory)
  THEN /\ stack' = Append(st, [directory |-> directory, items |-> {},
                               current_depth |-> current_depth])
       /\ cleanup_stats' = CountError(cleanup_stats)
       /\ UNCHANGED enumerated
  ELSE /\ stack' = Append(st, [directory |-> directory,
                               items |-> ChildrenOf(directory) \cap exists,
                               current_depth |-> current_depth])
       /\ enumerated' = enumerated \cup (ChildrenOf(directory) \cap exists)
       /\ UNCHANGED cleanup_stats

\* The five configured roots of clean_temp_files, as a set: duplicates of the
\* same spelling collapse.
ConfiguredV1 == {environ.TEMP, environ.TMP, WinTemp, Prefetch, HomeTemp}

\* d.exists() and d.is_dir()
IsExistingDir(p) == Resolve(p) \in Dirs /\ Resolve(p) \in exists

\* Mutant of CleanTempFilesStart: one unavailable root makes the call give
\* up all its roots.
CleanTempFilesStartAbort ==
  /\ entry = "clean_temp_files" /\ pc \in {"idle", "done", "summary"}
  /\ calls > 0
  /\ calls' = calls - 1
  /\ temp_dirs' = IF \E p \in ConfiguredV1 : ~IsExistingDir(p) THEN {}
                  ELSE ConfiguredV1
  /\ initial_stats' = cleanup_stats
  /\ max_depth' = DefaultMaxDepth
  /\ sweptRoots' = <<>>
  /\ unlinkedBefore' = unlinked
  /\ pc' = "roots"
  /\ UNCHANGED <<fsVars, unlinked, rmdired, judgedLocked, lockedSkips,
                 enumerated, visited, extRemoved, walkVars, cleanup_stats,
                 result, summary, entry, v2Vars, guiVars,
                 engineVars, browserVars, brandingVars>>

\* clean_temp_files, lines 113-124: build the list of roots that exist and
\* are directories, and copy the counters. The call may follow an earlier one
\* on the same instance.
CleanTempFilesStart ==
  /\ entry = "clean_temp_files" /\ pc \in {"idle", "done", "summary"}
  /\ calls > 0
  /\ calls' = calls - 1
  /\ temp_dirs' = {p \in ConfiguredV1 : IsExistingDir(p)}
  /\ initial_stats' = cleanup_stats
  /\ max_depth' = DefaultMaxDepth
  /\ sweptRoots' = <<>>
  /\ unlinkedBefore' = unlinked
  /\ pc' = "roots"
  /\ UNCHANGED <<fsVars, unlinked, rmdired, judgedLocked, lockedSkips,
                 enumerated, visited, extRemoved, walkVars, cleanup_stats,
                 result, summary, entry, v2Vars, guiVars,
                 engineVars, browserVars, brandingVars>>

\* clean_temp_files, lines 126-128: sweep the next root.
CleanTempFilesNextRoot ==
  /\ pc = "roots" /\ temp_dirs # {}
  /\ \E p \in temp_dirs :
       /\ temp_dirs' = temp_dirs \ {p}
       /\ sweptRoots' = Append(sweptRoots, Resolve(p))
       /\ CleanDirectoryRecursiveCall(stack, Resolve(p), max_depth, 0)
  /\ pc' = "iter"
  /\ UNCHANGED <<fsVars, unlinked, rmdired, judgedLocked, lockedSkips, visited,
                 extRemoved, max_depth, item, file_size, entry, v2Vars>>
  /\ UNCHANGED <<callVars, guiVars,
                 engineVars, browserVars, brandingVars>>

\* x / 1024 / 1024 of line 136, kept as a fraction: dividing a float by a
\* power of two is exact.
BytesPerMB == 1024 * 1024
InMB(bytes) == [num |-> bytes, den |-> BytesPerMB]

\* Mutant of CleanTempFilesFinish: the result is read from the counters of the
\* instance, not from what they gained since the call began.
CleanTempFilesFinishCumulative ==
  /\ pc = "roots" /\ temp_dirs = {}
  /\ result' = [files_deleted |-> cleanup_stats.temp_files_deleted,
                size_freed_mb |-> InMB(cleanup_stats.temp_size_freed),
                directories_processed |-> Len(sweptRoots)]
  /\ pc' = "done"
  /\ UNCHANGED <<fsVars, histVars, v1Vars, walkVars, entry, v2Vars,
                 initial_stats, calls, unlinkedBefore, summary, guiVars,
                 engineVars, browserVars, brandingVars>>

\* clean_temp_files, lines 130-139: all roots swept; the result holds what the
\* counters gained since line 124. Every root of temp_dirs was swept once, so
\* len(temp_dirs) is the number of sweeps of the call.
CleanTempFilesFinish ==
  /\ pc = "roots" /\ temp_dirs = {}
  /\ result' = [files_deleted |-> cleanup_stats.temp_files_deleted
                                   - initial_stats.temp_files_deleted,
                size_freed_mb |-> InMB(cleanup_stats.temp_size_freed
                                       - initial_stats.temp_size_freed),
                directories_processed |-> Len(sweptRoots)]
  /\ pc' = "done"
  /\ UNCHANGED <<fsVars, histVars, v1Vars, walkVars, entry, v2Vars,
                 initial_stats, calls, unlinkedBefore, summary, guiVars,
                 engineVars, browserVars, brandingVars>>

\* run_full_cleanup, lines 319-341, after its call of clean_temp_files has
\* returned: the browser cleanup and the update check, each of which counts
\* one error when it fails (lines 194, 299), then the summary, read from the
\* counters of the instance.
RunFullCleanupSummary ==
  /\ entry = "clean_temp_files" /\ pc = "done"
  /\ \E failed \in 0..1 :
       LET stats == [cleanup_stats EXCEPT !.errors_encountered = @ + failed]
       IN /\ cleanup_stats' = stats
          /\ summary' = [total_files_deleted |-> stats.temp_files_deleted,
                         total_size_freed_mb |-> InMB(stats.temp_size_freed),
                         total_errors |-> stats.errors_encountered]
  /\ pc' = "summary"
  /\ UNCHANGED <<fsVars, histVars, temp_dirs, max_depth, walkVars, v2Vars,
                 initial_stats, result, calls, unlinkedBefore, entry,
                 guiVars,
                 engineVars, browserVars, brandingVars>>

\* A caller sweeps one directory with a depth limit of its choice.
SweepStart ==
  /\ entry = "_clean_directory_recursive" /\ pc = "idle"
  /\ \E p \in {HomeTemp, MissingPath},
        md \in (0..DefaultMaxDepth) \cup {TreeDepth} :
       /\ max_depth' = md
       /\ sweptRoots' = Append(sweptRoots, Resolve(p))
       /\ CleanDirectoryRecursiveCall(stack, Resolve(p), md, 0)
  /\ pc' = "iter"
  /\ UNCHANGED <<fsVars, unlinked, rmdired, judgedLocked, lockedSkips, visited,
                 extRemoved, temp_dirs, item, file_size, entry, v2Vars>>
  /\ UNCHANGED <<callVars, guiVars,
                 engineVars, browserVars, brandingVars>>

\* _clean_directory_recursive, lines 149-154 and 163-165: the loop takes the
\* next entry of the listing and classifies it. For an entry whose stat is
\* refused, Path.is_file() raises PermissionError in the Python versions that
\* ignore only "not found" errors and answers False in those that ignore
\* every OSError.
CleanDirectoryIterate ==
  /\ pc = "iter" /\ stack # <<>> /\ Top.items # {}
  /\ \E it \in Top.items :
       LET rest == SetTopItems(stack, Top.items \ {it}) IN
       /\ visited' = visited \cup {it}
       /\ \/ \* is_file() raises: the handler of line 163 ends the loop
             /\ it \in exists /\ it \in unreadable
             /\ stack' = SetTopItems(stack, {})
             /\ cleanup_stats' = CountError(cleanup_stats)
             /\ UNCHANGED <<pc, item, enumerated>>
          \/ \* is_file() and is_dir() are False: the entry is passed over
             /\ it \notin exists \/ it \in unreadable
             /\ stack' = rest
             /\ UNCHANGED <<pc, item, cleanup_stats, enumerated>>
          \/ \* a file: safe_delete_file(item)
             /\ it \in exists /\ it \notin unreadable /\ it.kind = "file"
             /\ stack' = rest
             /\ item' = it
             /\ pc' = "sdf_exists"
             /\ UNCHANGED <<cleanup_stats, enumerated>>
          \/ \* a directory above the limit: swept first
             /\ it \in exists /\ it \notin unreadable /\ it.kind = "dir"
             /\ MayDescend(Top.current_depth, max_depth)
             /\ CleanDirectoryRecursiveCall(rest, it, max_depth,
                                            NextDepth(Top.current_depth))
             /\ UNCHANGED <<pc, item>>
          \/ \* a directory at the limit: left alone
             /\ it \in exists /\ it \notin unreadable /\ it.kind = "dir"
             /\ ~MayDescend(Top.current_depth, max_depth)
             /\ stack' = rest
             /\ UNCHANGED <<pc, item, cleanup_stats, enumerated>>
  /\ UNCHANGED <<fsVars, unlinked, rmdired, judgedLocked, lockedSkips,
                 extRemoved, sweptRoots, temp_dirs, max_depth, file_size,
                 entry, v2Vars>>
  /\ UNCHANGED <<callVars, guiVars,
                 engineVars, browserVars, brandingVars>>

\* Mutant of RmdirSucceeds: no directory is ever removed.
RmdirNever(d) == FALSE

\* not any(d.iterdir()), then d.rmdir(): every failure is swallowed.
RmdirSucceeds(d) == /\ ~IterdirRaises(d)
                    /\ ChildrenOf(d) \cap exists = {}

\* Mutant of CleanDirectoryReturn: the directory the sweep was called for is
\* removed like any other when it is left empty.
CleanDirectoryReturnRoot ==
  /\ pc = "iter" /\ stack # <<>> /\ Top.items = {}
  /\ stack' = Pop(stack)
  /\ pc' = IF Len(stack) = 1 THEN "roots" ELSE "iter"
  /\ IF RmdirSucceeds(Top.directory)
     THEN /\ exists' = exists \ {Top.directory}
          /\ rmdired' = rmdired \cup {Top.directory}
     ELSE UNCHANGED <<exists, rmdired>>
  /\ UNCHANGED <<locked, denied, unreadable, environ, unlinked, judgedLocked,
                 lockedSkips, enumerated, visited, extRemoved, sweptRoots,
                 v1Vars, item, file_size, entry, v2Vars, callVars, guiVars,
                 engineVars, browserVars, brandingVars>>

\* _clean_directory_recursive returns; the caller, lines 155-161, then tries
\* to remove the directory it has just swept.
CleanDirectoryReturn ==
  /\ pc = "iter" /\ stack # <<>> /\ Top.items = {}
  /\ stack' = Pop(stack)
  /\ IF Len(stack) = 1
     THEN /\ pc' = "roots"
          /\ UNCHANGED <<exists, rmdired>>
     ELSE /\ pc' = "iter"
          /\ IF RmdirSucceeds(Top.directory)
             THEN /\ exists' = exists \ {Top.directory}
                  /\ rmdired' = rmdired \cup {Top.directory}
             ELSE UNCHANGED <<exists, rmdired>>
  /\ UNCHANGED <<locked, denied, unreadable, environ, unlinked, judgedLocked,
                 lockedSkips, enumerated, visited, extRemoved, sweptRoots,
                 v1Vars, item,
                 file_size, entry, v2Vars>>
  /\ UNCHANGED <<callVars, guiVars,
                 engineVars, browserVars, brandingVars>>

\* safe_delete_file, lines 86-87: filepath.exists().
SafeDeleteExists ==
  /\ pc = "sdf_exists"
  /\ IF item \in exists
     THEN pc' = "sdf_inuse" /\ UNCHANGED item
     ELSE pc' = "iter" /\ item' = NoNode
  /\ UNCHANGED <<fsVars, histVars, v1Vars, stack, file_size, entry, v2Vars>>
  /\ UNCHANGED <<callVars, guiVars,
                 engineVars, browserVars, brandingVars>>

\* safe_delete_file, lines 89-91: a file judged in use is skipped.
SafeDeleteInUse ==
  /\ pc = "sdf_inuse"
  /\ IF IsFileInUse(item)
     THEN /\ judgedLocked' = judgedLocked \cup {item}
          /\ lockedSkips' = lockedSkips + 1
          /\ pc' = "iter" /\ item' = NoNode
     ELSE /\ pc' = "sdf_stat"
          /\ UNCHANGED <<judgedLocked, lockedSkips, item>>
  /\ UNCHANGED <<fsVars, unlinked, rmdired, enumerated, visited, extRemoved,
                 sweptRoots,
                 v1Vars, stack, file_size, entry, v2Vars>>
  /\ UNCHANGED <<callVars, guiVars,
                 engineVars, browserVars, brandingVars>>

\* safe_delete_file, line 93 (and 101-104): the size is read before the delete.
SafeDeleteStat ==
  /\ pc = "sdf_stat"
  /\ IF item \in exists
     THEN /\ file_size' = SizeOf(item)
          /\ pc' = "sdf_unlink"
          /\ UNCHANGED <<item, cleanup_stats>>
     ELSE /\ cleanup_stats' = CountError(cleanup_stats)
          /\ pc' = "iter" /\ item' = NoNode
          /\ UNCHANGED file_size
  /\ UNCHANGED <<fsVars, histVars, temp_dirs, max_depth, stack, entry, v2Vars>>
  /\ UNCHANGED <<callVars, guiVars,
                 engineVars, browserVars, brandingVars>>

\* unlink / os.remove of f: it raises for a file that is gone or may not be
\* deleted; for a file another process holds open it raises on Windows and
\* succeeds elsewhere.
UnlinkMayRaise(f) == f \notin exists \/ f \in denied \/ f \in locked
UnlinkMaySucceed(f) == f \in exists /\ f \notin denied

\* lines 96-97: the counters after a successful delete.
CountDeleted(stats, size) ==
  [stats EXCEPT !.temp_files_deleted = @ + 1, !.temp_size_freed = @ + size]

\* Mutant of SafeDeleteUnlink: the counters are raised before the delete call,
\* so a delete that raises is counted as well.
SafeDeleteUnlinkCountFirst ==
  /\ pc = "sdf_unlink"
  /\ \/ /\ UnlinkMaySucceed(item)
        /\ exists' = exists \ {item}
        /\ unlinked' = unlinked \cup {item}
        /\ cleanup_stats' = CountDeleted(cleanup_stats, file_size)
     \/ /\ UnlinkMayRaise(item)
        /\ cleanup_stats' = CountError(CountDeleted(cleanup_stats, file_size))
        /\ UNCHANGED <<exists, unlinked>>
  /\ pc' = "iter" /\ item' = NoNode /\ file_size' = 0
  /\ UNCHANGED <<locked, denied, unreadable, environ, rmdired, judgedLocked,
                 lockedSkips, enumerated, visited, extRemoved, sweptRoots,
                 temp_dirs, max_depth, stack, entry, v2Vars>>
  /\ UNCHANGED <<callVars, guiVars,
                 engineVars, browserVars, brandingVars>>

\* safe_delete_file, lines 94-104: the delete call, then the counters.
SafeDeleteUnlink ==
  /\ pc = "sdf_unlink"
  /\ \/ /\ UnlinkMaySucceed(item)
        /\ exists' = exists \ {item}
        /\ unlinked' = unlinked \cup {item}
        /\ cleanup_stats' = CountDeleted(cleanup_stats, file_size)
     \/ /\ UnlinkMayRaise(item)
        /\ cleanup_stats' = CountError(cleanup_stats)
        /\ UNCHANGED <<exists, unlinked>>
  /\ pc' = "iter" /\ item' = NoNode /\ file_size' = 0
  /\ UNCHANGED <<locked, denied, unreadable, environ, rmdired, judgedLocked,
                 lockedSkips, enumerated, visited, extRemoved, sweptRoots,
                 temp_dirs,
                 max_depth, stack, entry, v2Vars>>
  /\ UNCHANGED <<callVars, guiVars,
                 engineVars, browserVars, brandingVars>>


\* ------------------------------ V2: V2CleanupEngine (v2_core_engine.py)

WalkTop == walk[Len(walk)]

\* os.path.exists(path): False for a path that is gone or whose stat fails.
OsPathExists(n) == n \in exists /\ n \notin unreadable

\* os.walk lists one directory: its subdirectories and its other entries. A
\* listing that fails is skipped without a word (onerror is None).
WalkFrame(top) ==
  IF IterdirRaises(top)
  THEN [top |-> top, dirs |-> {}, files |-> {}]
  ELSE [top |-> top,
        dirs |-> {n \in ChildrenOf(top) \cap exists : n.kind = "dir"},
        files |-> {n \in ChildrenOf(top) \cap exists : n.kind = "file"}]

\* The four configured roots of _cleanup_temp_files, lines 454-459, in order.
ConfiguredV2 == <<environ.TEMP, environ.TMP, WinTemp, HomeTemp>>

\* _cleanup_temp_files, lines 447-459.
CleanupTempFilesStart ==
  /\ entry = "_cleanup_temp_files" /\ pc = "idle"
  /\ v2_temp_dirs' = ConfiguredV2
  /\ files_processed' = 0 /\ files_deleted' = 0
  /\ space_freed' = 0 /\ errors' = 0
  /\ pc' = "v2_roots"
  /\ UNCHANGED <<fsVars, histVars, v1Vars, walkVars, walk, entry>>
  /\ UNCHANGED <<callVars, guiVars,
                 engineVars, browserVars, brandingVars>>

\* lines 461-464: the next root, walked if os.path.exists says it is there.
CleanupTempFilesNextRoot ==
  /\ pc = "v2_roots" /\ v2_temp_dirs # <<>>
  /\ v2_temp_dirs' = Tail(v2_temp_dirs)
  /\ LET top == Resolve(Head(v2_temp_dirs)) IN
     IF OsPathExists(top)
     THEN /\ walk' = <<WalkFrame(top)>>
          /\ enumerated' = enumerated \cup WalkFrame(top).files
                                      \cup WalkFrame(top).dirs
          /\ sweptRoots' = Append(sweptRoots, top)
          /\ pc' = "v2_walk"
     ELSE UNCHANGED <<walk, enumerated, sweptRoots, pc>>
  /\ UNCHANGED <<fsVars, unlinked, rmdired, judgedLocked, lockedSkips, visited,
                 extRemoved, v1Vars, walkVars, files_processed, files_deleted,
                 space_freed, errors, entry>>
  /\ UNCHANGED <<callVars, guiVars,
                 engineVars, browserVars, brandingVars>>

\* lines 481-496: the result is built.
CleanupTempFilesFinish ==
  /\ pc = "v2_roots" /\ v2_temp_dirs = <<>>
  /\ pc' = "done"
  /\ UNCHANGED <<fsVars, histVars, v1Vars, walkVars, v2Vars, entry>>
  /\ UNCHANGED <<callVars, guiVars,
                 engineVars, browserVars, brandingVars>>

\* Mutant of CleanupTempFilesNextFile: files_processed is not raised.
CleanupTempFilesNextFileUncounted ==
  /\ pc = "v2_walk" /\ walk # <<>> /\ WalkTop.files # {}
  /\ \E f \in WalkTop.files :
       /\ walk' = [walk EXCEPT ![Len(walk)].files = @ \ {f}]
       /\ item' = f
       /\ visited' = visited \cup {f}
  /\ pc' = "v2_exists"
  /\ UNCHANGED <<fsVars, unlinked, rmdired, judgedLocked, lockedSkips,
                 enumerated, extRemoved, sweptRoots, v1Vars, stack, file_size,
                 v2_temp_dirs, files_processed, files_deleted, space_freed,
                 errors, entry>>
  /\ UNCHANGED <<callVars, guiVars,
                 engineVars, browserVars, brandingVars>>

\* lines 465-468: the loop over the files of the directory os.walk yielded.
CleanupTempFilesNextFile ==
  /\ pc = "v2_walk" /\ walk # <<>> /\ WalkTop.files # {}
  /\ \E f \in WalkTop.files :
       /\ walk' = [walk EXCEPT ![Len(walk)].files = @ \ {f}]
       /\ item' = f
       /\ visited' = visited \cup {f}
  /\ files_processed' = files_processed + 1
  /\ pc' = "v2_exists"
  /\ UNCHANGED <<fsVars, unlinked, rmdired, judgedLocked, lockedSkips,
                 enumerated, extRemoved, sweptRoots, v1Vars, stack, file_size,
                 v2_temp_dirs, files_deleted, space_freed, errors, entry>>
  /\ UNCHANGED <<callVars, guiVars,
                 engineVars, browserVars, brandingVars>>

\* os.walk goes on: into the next subdirectory it listed, whatever its depth,
\* or back to the directory above.
CleanupTempFilesDescend ==
  /\ pc = "v2_walk" /\ walk # <<>> /\ WalkTop.files = {}
  /\ IF WalkTop.dirs # {}
     THEN \E d \in WalkTop.dirs :
            /\ walk' = Append([walk EXCEPT ![Len(walk)].dirs = @ \ {d}],
                              WalkFrame(d))
            /\ visited' = visited \cup {d}
            /\ enumerated' = enumerated \cup WalkFrame(d).files
                                        \cup WalkFrame(d).dirs
            /\ UNCHANGED pc
     ELSE /\ walk' = SubSeq(walk, 1, Len(walk) - 1)
          /\ pc' = IF Len(walk) = 1 THEN "v2_roots" ELSE "v2_walk"
          /\ UNCHANGED <<visited, enumerated>>
  /\ UNCHANGED <<fsVars, unlinked, rmdired, judgedLocked, lockedSkips,
                 extRemoved, sweptRoots, v1Vars, walkVars, v2_temp_dirs,
                 files_processed,
                 files_deleted, space_freed, errors, entry>>
  /\ UNCHANGED <<callVars, guiVars,
                 engineVars, browserVars, brandingVars>>

\* line 469: os.path.exists(file_path).
CleanupTempFilesExists ==
  /\ pc = "v2_exists"
  /\ IF OsPathExists(item)
     THEN pc' = "v2_getsize" /\ UNCHANGED item
     ELSE pc' = "v2_walk" /\ item' = NoNode
  /\ UNCHANGED <<fsVars, histVars, v1Vars, stack, file_size, v2Vars, entry>>
  /\ UNCHANGED <<callVars, guiVars,
                 engineVars, browserVars, brandingVars>>

\* line 470 (and 474-476): os.path.getsize(file_path).
CleanupTempFilesGetSize ==
  /\ pc = "v2_getsize"
  /\ IF item \in exists
     THEN /\ file_size' = SizeOf(item)
          /\ pc' = "v2_remove"
          /\ UNCHANGED <<item, errors>>
     ELSE /\ errors' = errors + 1
          /\ pc' = "v2_walk" /\ item' = NoNode
          /\ UNCHANGED file_size
  /\ UNCHANGED <<fsVars, histVars, v1Vars, stack, v2_temp_dirs, walk,
                 files_processed, files_deleted, space_freed, entry>>
  /\ UNCHANGED <<callVars, guiVars,
                 engineVars, browserVars, brandingVars>>

\* lines 471-476: os.remove(file_path), then the counters.
CleanupTempFilesRemove ==
  /\ pc = "v2_remove"
  /\ \/ /\ UnlinkMaySucceed(item)
        /\ exists' = exists \ {item}
        /\ unlinked' = unlinked \cup {item}
        /\ files_deleted' = files_deleted + 1
        /\ space_freed' = space_freed + file_size
        /\ UNCHANGED errors
     \/ /\ UnlinkMayRaise(item)
        /\ errors' = errors + 1
        /\ UNCHANGED <<exists, unlinked, files_deleted, space_freed>>
  /\ pc' = "v2_walk" /\ item' = NoNode /\ file_size' = 0
  /\ UNCHANGED <<locked, denied, unreadable, environ, rmdired, judgedLocked,
                 lockedSkips, enumerated, visited, extRemoved, sweptRoots,
                 v1Vars, stack,
                 v2_temp_dirs, walk, files_processed, entry>>
  /\ UNCHANGED <<callVars, guiVars,
                 engineVars, browserVars, brandingVars>>

\* ------------------------------------------------------------- environment

Disturbances == Cardinality(locked) + Cardinality(denied)
                + Cardinality(unreadable) + Cardinality(extRemoved)

\* The entries the sweep has listed and not yet finished with.
InFlight == (IF item = NoNode THEN {} ELSE {item})
            \cup (IF stack = <<>> THEN {} ELSE Top.items)
            \cup (IF walk = <<>> THEN {} ELSE walk[Len(walk)].files)

\* Another process removes a file between its enumeration and the sweep's
\* delete call.
ExternalRemove ==
  /\ pc \notin {"idle", "done"}
  /\ Disturbances < MaxDisturbances
  /\ \E f \in (InFlight \cap Files \cap exists) \ locked :
       /\ exists' = exists \ {f}
       /\ extRemoved' = extRemoved \cup {f}
  /\ UNCHANGED <<locked, denied, unreadable, environ, unlinked, rmdired,
                 sweptRoots,
                 judgedLocked, lockedSkips, enumerated, visited, v1Vars,
                 walkVars, v2Vars, entry, pc>>
  /\ UNCHANGED <<callVars, guiVars,
                 engineVars, browserVars, brandingVars>>

\* The process that held files open closes them between two calls of
\* clean_temp_files.
LockReleased ==
  /\ entry = "clean_temp_files" /\ pc = "done" /\ calls > 0
  /\ locked # {}
  /\ locked' = {}
  /\ UNCHANGED <<exists, denied, unreadable, environ, histVars, v1Vars,
                 walkVars, v2Vars, callVars, entry, pc, guiVars,
                 engineVars, browserVars, brandingVars>>

\* ------------------------------------------------------------ specification

\* The sets of at most k elements of S.
RECURSIVE SubsetsUpTo(_, _)
SubsetsUpTo(S, k) ==
  IF k = 0 THEN {{}}
  ELSE LET smaller == SubsetsUpTo(S, k - 1)
       IN smaller \cup {T \cup {x} : T \in smaller, x \in S}

\* What may be wrong with an entry when the run starts.
FaultPairs ==
  LET TempFiles == {f \in Files : f.root # "W"}
      TempNodes == {n \in Nodes : n.root # "W"}
  IN (TempFiles \X {"locked", "denied"})
       \cup ((TempNodes \ {Root(r) : r \in RootDirs}) \X {"unreadable"})

FaultChoices == SubsetsUpTo(FaultPairs, MaxDisturbances)

\* The environments and operations a run starts from.
Environs == [TEMP : {HomeTemp, HomeTempShort, MissingPath}, TMP : {HomeTemp}]
DefaultEnviron == [TEMP |-> HomeTemp, TMP |-> HomeTemp]

NoStats == [temp_files_deleted |-> 0, temp_size_freed |-> 0,
            errors_encountered |-> 0]
NoResult == [files_deleted |-> 0, size_freed_mb |-> InMB(0),
             directories_processed |-> 0]
NoSummary == [total_files_deleted |-> 0, total_size_freed_mb |-> InMB(0),
              total_errors |-> 0]

\* No window is open.
\* A new V2CleanupEngine (v2_core_engine.py 72-75) that is never called.
NoState == [call |-> 0, taken |-> "never"]
NoEngineResult == [success |-> FALSE, error |-> "", before_state |-> NoState,
                   cleanup_results |-> <<>>, call |-> 0]
EngineNew ==
  /\ before_state = NoState /\ after_state = NoState
  /\ cleanup_results = <<>>
  /\ engine_pc = "idle" /\ engine_call = 0
  /\ raised = [msg |-> ""] /\ propagated = FALSE
  /\ engine_result = NoEngineResult

BrowserCleanerNew ==
  /\ force = FALSE /\ browser_pc = "idle"
  /\ initial_size = 0 /\ listing = {} /\ files_removed = 0
  /\ removal = [success |-> FALSE, size_freed |-> 0]
  /\ browser_result = [success |-> FALSE, error |-> "", size_freed |-> 0]
  /\ browsers_cleaned = 0 /\ cache_size_freed = 0
  /\ ranAtCheck = FALSE /\ removedByCall = {} /\ cache_changes = 0

BrowserOff ==
  /\ BrowserCleanerNew
  /\ processes = {} /\ cache_present = FALSE /\ cache_unreadable = FALSE
  /\ cache_files = {} /\ cache_subdir = FALSE /\ held = {}

\* The nested dictionaries that exist: those of default_config, those
\* json.load builds and the one set_pricing_tier builds.
DefaultObjects == {"default.company_info", "default.colors",
                   "default.features"}
Objects == DefaultObjects
             \cup {"loaded.company_info", "loaded.colors", "loaded.features"}
             \cup {"tier_features"}

\* BrandingManager.default_config as written in __init__ (branding_config.py
\* 26-65), by value: two keys of company_info, one colour, two features.
BuiltInDefaults ==
  [company_info |-> [name |-> "Nick P - IT Solutions",
                     website |-> "https://your-website.com"],
   colors |-> [primary |-> "#2E86AB"],
   features |-> [registry_cleanup |-> TRUE, network_cleanup |-> FALSE],
   pricing_tier |-> "professional"]

Sections == {"company_info", "colors", "features"}

\* default_config: its top-level dictionary, which nothing assigns to.
default_config ==
  [company_info |-> "default.company_info", colors |-> "default.colors",
   features |-> "default.features", pricing_tier |-> "professional"]

NoFields == [name |-> "", website |-> "", primary |-> "",
             registry_cleanup |-> FALSE, network_cleanup |-> FALSE,
             pricing_tier |-> ""]

\* No BrandingManager is constructed.
BrandingOff ==
  /\ heap = [o \in Objects |-> [unallocated |-> TRUE]]
  /\ config = default_config
  /\ config_file = [missing |-> TRUE]
  /\ fields = NoFields
  /\ branding_pc = "none"
  /\ user_steps = 0

GuiOff ==
  /\ gui = "none" /\ ui_pc = "mainloop" /\ requests = 0
  /\ workers = <<>> /\ cleanup_thread = 0
  /\ progress_queue = <<>> /\ after_calls = <<>>
  /\ button = "normal" /\ progress_shown = 0 /\ progress_log = <<>>
  /\ widgetWriters = {} /\ refusals = 0 /\ completions = 0

\* A new PCCleanupTool (main.py 30-42) or V2CleanupEngine on a disk whose
\* temp folders are full, with the faults of this run.
Fresh ==
  /\ GuiOff
  /\ EngineNew /\ engine_calls = 0 /\ BrowserOff /\ BrandingOff
  /\ exists = Nodes
  /\ \E F \in FaultChoices :
       /\ locked = {x[1] : x \in {y \in F : y[2] = "locked"}}
       /\ denied = {x[1] : x \in {y \in F : y[2] = "denied"}}
       /\ unreadable = {x[1] : x \in {y \in F : y[2] = "unreadable"}}
  /\ pc = "idle"
  /\ cleanup_stats = NoStats
  /\ initial_stats = NoStats /\ result = NoResult /\ summary = NoSummary
  /\ unlinkedBefore = {}
  /\ temp_dirs = {}
  /\ max_depth = DefaultMaxDepth
  /\ stack = <<>>
  /\ item = NoNode
  /\ file_size = 0
  /\ unlinked = {} /\ rmdired = {} /\ judgedLocked = {} /\ lockedSkips = 0
  /\ enumerated = {} /\ visited = {} /\ extRemoved = {} /\ sweptRoots = <<>>
  /\ v2_temp_dirs = <<>> /\ walk = <<>>
  /\ files_processed = 0 /\ files_deleted = 0 /\ space_freed = 0 /\ errors = 0

\* One operation is run once.
Init ==
  /\ Fresh
  /\ \/ entry = "clean_temp_files" /\ environ \in Environs /\ calls = 1
     \/ /\ entry = "_clean_directory_recursive" /\ environ = DefaultEnviron
        /\ calls = 0
     \/ entry = "_cleanup_temp_files" /\ environ \in Environs /\ calls = 0

Next ==
  \/ CleanTempFilesStart
  \/ CleanTempFilesNextRoot
  \/ CleanTempFilesFinish
  \/ SweepStart
  \/ CleanDirectoryIterate
  \/ CleanDirectoryReturn
  \/ SafeDeleteExists
  \/ SafeDeleteInUse
  \/ SafeDeleteStat
  \/ SafeDeleteUnlink
  \/ CleanupTempFilesStart
  \/ CleanupTempFilesNextRoot
  \/ CleanupTempFilesFinish
  \/ CleanupTempFilesNextFile
  \/ CleanupTempFilesDescend
  \/ CleanupTempFilesExists
  \/ CleanupTempFilesGetSize
  \/ CleanupTempFilesRemove
  \/ ExternalRemove

Spec == Init /\ [][Next]_vars

\* clean_temp_files runs in a process whose TEMP or TMP may be unset or
\* empty: os.environ.get(name, '') is then the empty string.
InitUnset ==
  /\ Fresh
  /\ entry = "clean_temp_files"
  /\ environ \in [TEMP : {EmptyPath, HomeTemp}, TMP : {EmptyPath, HomeTemp}]
  /\ calls = 1

NextUnset ==
  \/ CleanTempFilesStart
  \/ CleanTempFilesNextRoot
  \/ CleanTempFilesFinish
  \/ CleanDirectoryIterate
  \/ CleanDirectoryReturn
  \/ SafeDeleteExists
  \/ SafeDeleteInUse
  \/ SafeDeleteStat
  \/ SafeDeleteUnlink
  \/ ExternalRemove

SpecUnset == InitUnset /\ [][NextUnset]_vars

\* clean_temp_files is called several times on one instance.
InitCalls ==
  /\ Fresh
  /\ entry = "clean_temp_files" /\ environ = DefaultEnviron
  /\ calls = MaxCalls

NextCalls ==
  \/ CleanTempFilesStart
  \/ CleanTempFilesNextRoot
  \/ CleanTempFilesFinish
  \/ CleanDirectoryIterate
  \/ CleanDirectoryReturn
  \/ SafeDeleteExists
  \/ SafeDeleteInUse
  \/ SafeDeleteStat
  \/ SafeDeleteUnlink
  \/ ExternalRemove
  \/ LockReleased
  \/ RunFullCleanupSummary

SpecCalls == InitCalls /\ [][NextCalls]_vars

\* ------------------- GUI: ModernPCCleanupGUI (gui_app.py), V2ModernUI
\* ------------------- (v2_modern_ui.py) and the engine's progress calls
\*
\* The foreground thread runs one handler at a time; each step of a worker
\* thread can fall between two handlers. What a cleanup does to the disk is
\* the subject of Spec: here a cleanup returns or raises.

MainThread == "MainThread"
Worker == "worker"

Alive(t) == workers[t].pc # "finished"
AliveWorkers == {t \in 1..Len(workers) : Alive(t)}

\* Mutant of CleanupThreadIsAlive: the guard of the start handlers is lost.
CleanupThreadIsAliveNever == FALSE

\* self.cleanup_thread and self.cleanup_thread.is_alive()
CleanupThreadIsAlive == cleanup_thread # 0 /\ Alive(cleanup_thread)

SetWorker(t, p) == [workers EXCEPT ![t].pc = p]

\* gui_app.start_cleanup, lines 291-306, up to its call of monitor_progress.
StartCleanup ==
  /\ gui = "gui_app" /\ ui_pc = "mainloop"
  /\ requests < MaxStartRequests
  /\ requests' = requests + 1
  /\ IF CleanupThreadIsAlive
     THEN /\ refusals' = refusals + 1
          /\ UNCHANGED <<ui_pc, workers, cleanup_thread, button,
                         progress_shown, progress_log, widgetWriters>>
     ELSE /\ button' = "disabled"
          /\ progress_shown' = 0
          /\ widgetWriters' = widgetWriters \cup {MainThread}
          /\ workers' = Append(workers, [pc |-> "new", k |-> 0,
                                         success |-> FALSE])
          /\ cleanup_thread' = Len(workers) + 1
          /\ progress_log' = <<>>
          /\ ui_pc' = "monitor_progress"
          /\ UNCHANGED refusals
  /\ UNCHANGED <<gui, progress_queue, after_calls, completions, sweepVars,
                 engineVars, browserVars, brandingVars>>

\* gui_app._run_cleanup, lines 311-314: the tool is built and the first
\* notification is queued, unless the constructor raises.
RunCleanupBegin ==
  \E t \in 1..Len(workers) :
    /\ gui = "gui_app" /\ workers[t].pc = "new"
    /\ \/ /\ progress_queue' = Append(progress_queue,
                                       [kind |-> "progress", value |-> 10])
          /\ progress_log' = Append(progress_log, 10)
          /\ workers' = SetWorker(t, "run_full_cleanup")
       \/ /\ workers' = SetWorker(t, "raised")
          /\ UNCHANGED <<progress_queue, progress_log>>
    /\ UNCHANGED <<gui, ui_pc, requests, cleanup_thread, after_calls, button,
                   progress_shown, widgetWriters, refusals,
                   completions, sweepVars,
                 engineVars, browserVars, brandingVars>>

\* line 317: run_full_cleanup returns or raises.
RunCleanupFull ==
  \E t \in 1..Len(workers) :
    /\ gui = "gui_app" /\ workers[t].pc = "run_full_cleanup"
    /\ \/ workers' = SetWorker(t, "put100")
       \/ workers' = SetWorker(t, "raised")
    /\ UNCHANGED <<gui, ui_pc, requests, cleanup_thread, progress_queue,
                   after_calls, button, progress_shown, progress_log,
                   widgetWriters, refusals, completions, sweepVars,
                 engineVars, browserVars, brandingVars>>

\* line 319
RunCleanupPut100 ==
  \E t \in 1..Len(workers) :
    /\ gui = "gui_app" /\ workers[t].pc = "put100"
    /\ progress_queue' = Append(progress_queue,
                                [kind |-> "progress", value |-> 100])
    /\ progress_log' = Append(progress_log, 100)
    /\ workers' = SetWorker(t, "put_complete")
    /\ UNCHANGED <<gui, ui_pc, requests, cleanup_thread, after_calls, button,
                   progress_shown, widgetWriters, refusals,
                   completions, sweepVars,
                 engineVars, browserVars, brandingVars>>

\* lines 320 and 322-323: the last item of the thread, COMPLETE or ERROR.
RunCleanupEnd ==
  \E t \in 1..Len(workers) :
    /\ gui = "gui_app" /\ workers[t].pc \in {"put_complete", "raised"}
    /\ progress_queue' =
         Append(progress_queue,
                [kind |-> IF workers[t].pc = "raised" THEN "ERROR"
                          ELSE "COMPLETE",
                 value |-> 0])
    /\ workers' = SetWorker(t, "finished")
    /\ UNCHANGED <<gui, ui_pc, requests, cleanup_thread, after_calls, button,
                   progress_shown, progress_log, widgetWriters, refusals,
                   completions, sweepVars,
                 engineVars, browserVars, brandingVars>>

\* The loop of monitor_progress, lines 328-342: items are taken until the
\* queue is empty or a COMPLETE or ERROR item ends the monitoring.
RECURSIVE Drain(_, _)
Drain(q, shown) ==
  IF q = <<>> THEN [queue |-> q, shown |-> shown, ended |-> "Empty"]
  ELSE IF Head(q).kind = "progress" THEN Drain(Tail(q), Head(q).value)
  ELSE [queue |-> Tail(q), shown |-> shown, ended |-> Head(q).kind]

\* gui_app.monitor_progress, lines 325-346 (with update_progress,
\* cleanup_completed and cleanup_error), called by start_cleanup or by the
\* timer it set itself.
MonitorProgress ==
  /\ gui = "gui_app"
  /\ \/ ui_pc = "monitor_progress" /\ UNCHANGED after_calls
     \/ /\ ui_pc = "mainloop" /\ after_calls # <<>>
        /\ Head(after_calls) = "monitor_progress"
        /\ after_calls' = Tail(after_calls)
  /\ LET d == Drain(progress_queue, progress_shown) IN
     /\ progress_queue' = d.queue
     /\ progress_shown' = d.shown
     /\ widgetWriters' = IF progress_queue = <<>> THEN widgetWriters
                         ELSE widgetWriters \cup {MainThread}
     /\ button' = IF d.ended = "Empty" THEN button ELSE "normal"
     /\ ui_pc' = IF d.ended = "Empty" THEN "reschedule" ELSE "mainloop"
     /\ completions' = IF d.ended = "Empty" THEN completions
                       ELSE completions + 1
  /\ UNCHANGED <<gui, requests, workers, cleanup_thread, progress_log,
                 refusals, sweepVars,
                 engineVars, browserVars, brandingVars>>

\* line 346: self.root.after(100, self.monitor_progress)
MonitorProgressReschedule ==
  /\ gui = "gui_app" /\ ui_pc = "reschedule"
  /\ after_calls' = Append(after_calls, "monitor_progress")
  /\ ui_pc' = "mainloop"
  /\ UNCHANGED <<gui, requests, workers, cleanup_thread, progress_queue,
                 button, progress_shown, progress_log, widgetWriters,
                 refusals, completions, sweepVars,
                 engineVars, browserVars, brandingVars>>

\* ModernProgressBar.set_progress, line 41: the value is clamped.
SetProgress(percentage) ==
  IF percentage < 0 THEN 0 ELSE IF percentage > 100 THEN 100 ELSE percentage

\* v2_modern_ui.start_one_click_cleanup, lines 359-401: the guard, the
\* question to the user, then the worker thread.
StartOneClickCleanup ==
  /\ gui = "v2_modern_ui" /\ ui_pc = "mainloop"
  /\ requests < MaxStartRequests
  /\ requests' = requests + 1
  /\ IF CleanupThreadIsAlive
     THEN /\ refusals' = refusals + 1
          /\ UNCHANGED <<workers, cleanup_thread, button, progress_shown,
                         progress_log, widgetWriters>>
     ELSE \E askyesno \in BOOLEAN :
            IF askyesno
            THEN /\ button' = "disabled"
                 /\ progress_shown' = SetProgress(0)
                 /\ widgetWriters' = widgetWriters \cup {MainThread}
                 /\ workers' = Append(workers, [pc |-> "mode", k |-> 0,
                                                success |-> FALSE])
                 /\ cleanup_thread' = Len(workers) + 1
                 /\ progress_log' = <<>>
                 /\ UNCHANGED refusals
            ELSE UNCHANGED <<workers, cleanup_thread, button, progress_shown,
                             progress_log, widgetWriters, refusals>>
  /\ UNCHANGED <<gui, ui_pc, progress_queue, after_calls,
                 completions, sweepVars,
                 engineVars, browserVars, brandingVars>>

\* The percentages of the update_progress calls that one run of
\* perform_one_click_cleanup makes, in order (v2_core_engine.py 373-425);
\* the second and the tenth are the call at the head of capture_system_state
\* (line 127), which may raise afterwards (line 214).
OneClickProgress == <<5, 0, 15 + (1 * 10), 15 + (2 * 10), 15 + (3 * 10),
                      15 + (4 * 10), 15 + (5 * 10), 15 + (6 * 10), 85, 0, 95,
                      100>>
CaptureCalls == {2, 10}

\* cleanup_worker, line 389: the mode is read from a Tk variable; a raise
\* takes the worker into the handler of lines 397-398, which schedules
\* lambda: self.cleanup_error(str(e)).
CleanupWorkerMode ==
  \E t \in 1..Len(workers) :
    /\ gui = "v2_modern_ui" /\ workers[t].pc = "mode"
    /\ \/ /\ workers' = [workers EXCEPT ![t].pc = "perform", ![t].k = 1]
          /\ UNCHANGED after_calls
       \/ /\ workers' = SetWorker(t, "except")
          /\ after_calls' = Append(after_calls, "cleanup_error")
    /\ UNCHANGED <<gui, ui_pc, requests, cleanup_thread, progress_queue,
                   button, progress_shown, progress_log, widgetWriters,
                   refusals, completions, sweepVars,
                 engineVars, browserVars, brandingVars>>

\* One update_progress call of perform_one_click_cleanup, made on the worker
\* thread: V2CleanupEngine.update_progress calls the callbacks the window
\* registered (v2_modern_ui.py 144-145), that is V2ModernUI.update_progress
\* and update_status, which set the progress bar and the status label.
PerformOneClickProgress ==
  \E t \in 1..Len(workers) :
    /\ gui = "v2_modern_ui" /\ workers[t].pc = "perform"
    /\ progress_log' = Append(progress_log, OneClickProgress[workers[t].k])
    /\ progress_shown' = SetProgress(OneClickProgress[workers[t].k])
    /\ widgetWriters' = widgetWriters \cup {Worker}
    /\ workers' = IF workers[t].k = Len(OneClickProgress)
                  THEN [workers EXCEPT ![t].pc = "after", ![t].success = TRUE]
                  ELSE [workers EXCEPT ![t].k = @ + 1]
    /\ UNCHANGED <<gui, ui_pc, requests, cleanup_thread, progress_queue,
                   after_calls, button, refusals, completions, sweepVars,
                 engineVars, browserVars, brandingVars>>

\* capture_system_state raises after its progress call; the handler of
\* perform_one_click_cleanup, lines 436-443, returns success = False.
PerformOneClickRaise ==
  \E t \in 1..Len(workers) :
    /\ gui = "v2_modern_ui" /\ workers[t].pc = "perform"
    /\ (workers[t].k - 1) \in CaptureCalls
    /\ workers' = [workers EXCEPT ![t].pc = "after", ![t].success = FALSE]
    /\ UNCHANGED <<gui, ui_pc, requests, cleanup_thread, progress_queue,
                   after_calls, button, progress_shown, progress_log,
                   widgetWriters, refusals, completions, sweepVars,
                 engineVars, browserVars, brandingVars>>

\* cleanup_worker, end of the except clause (line 398): Python unbinds e
\* and the thread ends.
CleanupWorkerExceptEnd ==
  \E t \in 1..Len(workers) :
    /\ gui = "v2_modern_ui" /\ workers[t].pc = "except"
    /\ workers' = SetWorker(t, "finished")
    /\ UNCHANGED <<gui, ui_pc, requests, cleanup_thread, progress_queue,
                   after_calls, button, progress_shown, progress_log,
                   widgetWriters, refusals, completions, sweepVars,
                 engineVars, browserVars, brandingVars>>

\* cleanup_worker, line 395: root.after(0, cleanup_completed).
CleanupWorkerAfter ==
  \E t \in 1..Len(workers) :
    /\ gui = "v2_modern_ui" /\ workers[t].pc = "after"
    /\ after_calls' = Append(after_calls, "cleanup_completed")
    /\ workers' = SetWorker(t, "finished")
    /\ UNCHANGED <<gui, ui_pc, requests, cleanup_thread, progress_queue,
                   button, progress_shown, progress_log, widgetWriters,
                   refusals, completions, sweepVars,
                 engineVars, browserVars, brandingVars>>

\* v2_modern_ui.cleanup_completed, lines 403-433, run by the main loop: the
\* button is enabled again.
CleanupCompleted ==
  /\ gui = "v2_modern_ui" /\ ui_pc = "mainloop"
  /\ after_calls # <<>>
  /\ Head(after_calls) = "cleanup_completed"
  /\ after_calls' = Tail(after_calls)
  /\ button' = "normal"
  /\ widgetWriters' = widgetWriters \cup {MainThread}
  /\ completions' = completions + 1
  /\ UNCHANGED <<gui, ui_pc, requests, workers, cleanup_thread,
                 progress_queue, progress_shown, progress_log, refusals,
                 sweepVars,
                 engineVars, browserVars, brandingVars>>

\* The callback lambda: self.cleanup_error(str(e)) of line 398, run by the
\* main loop. It reads e of cleanup_worker: while the worker is still inside
\* its except clause e is bound and cleanup_error (lines 435-439) runs; once
\* the clause has ended e is unbound, the callback raises NameError and
\* nothing is done.
CleanupErrorCallback ==
  /\ gui = "v2_modern_ui" /\ ui_pc = "mainloop"
  /\ after_calls # <<>>
  /\ Head(after_calls) = "cleanup_error"
  /\ after_calls' = Tail(after_calls)
  /\ IF \E t \in 1..Len(workers) : workers[t].pc = "except"
     THEN /\ button' = "normal"
          /\ widgetWriters' = widgetWriters \cup {MainThread}
          /\ completions' = completions + 1
     ELSE UNCHANGED <<button, widgetWriters, completions>>
  /\ UNCHANGED <<gui, ui_pc, requests, workers, cleanup_thread,
                 progress_queue, progress_shown, progress_log, refusals,
                 sweepVars,
                 engineVars, browserVars, brandingVars>>

\* No sweep is run from the test harness: the window is what runs.
SweepOff ==
  /\ exists = Nodes /\ locked = {} /\ denied = {} /\ unreadable = {}
  /\ environ = [TEMP |-> HomeTemp, TMP |-> HomeTemp]
  /\ entry = "gui" /\ pc = "idle"
  /\ cleanup_stats = NoStats /\ initial_stats = NoStats
  /\ result = NoResult /\ summary = NoSummary
  /\ calls = 0 /\ unlinkedBefore = {}
  /\ temp_dirs = {} /\ max_depth = DefaultMaxDepth
  /\ stack = <<>> /\ item = NoNode /\ file_size = 0
  /\ unlinked = {} /\ rmdired = {} /\ judgedLocked = {} /\ lockedSkips = 0
  /\ enumerated = {} /\ visited = {} /\ extRemoved = {} /\ sweptRoots = <<>>
  /\ v2_temp_dirs = <<>> /\ walk = <<>>
  /\ files_processed = 0 /\ files_deleted = 0 /\ space_freed = 0 /\ errors = 0

\* ModernPCCleanupGUI.__init__ (gui_app.py 31-35) and V2ModernUI.__init__
\* (v2_modern_ui.py 137-148): no thread, an empty queue.
InitGui ==
  /\ SweepOff
  /\ EngineNew /\ engine_calls = 0 /\ BrowserOff /\ BrandingOff
  /\ gui \in {"gui_app", "v2_modern_ui"}
  /\ ui_pc = "mainloop" /\ requests = 0
  /\ workers = <<>> /\ cleanup_thread = 0
  /\ progress_queue = <<>> /\ after_calls = <<>>
  /\ button = "normal" /\ progress_shown = 0 /\ progress_log = <<>>
  /\ widgetWriters = {} /\ refusals = 0 /\ completions = 0

NextGui ==
  \/ StartCleanup
  \/ RunCleanupBegin
  \/ RunCleanupFull
  \/ RunCleanupPut100
  \/ RunCleanupEnd
  \/ MonitorProgress
  \/ MonitorProgressReschedule
  \/ StartOneClickCleanup
  \/ CleanupWorkerMode
  \/ PerformOneClickProgress
  \/ PerformOneClickRaise
  \/ CleanupWorkerExceptEnd
  \/ CleanupWorkerAfter
  \/ CleanupCompleted
  \/ CleanupErrorCallback

SpecGui == InitGui /\ [][NextGui]_vars

\* The operating system schedules every worker thread that can run, and the
\* Tk main loop runs the handler or timer that is due. Nothing obliges the
\* user to start a cleanup.
SpecGuiFair ==
  /\ InitGui /\ [][NextGui]_vars
  /\ WF_vars(RunCleanupBegin \/ RunCleanupFull \/ RunCleanupPut100
               \/ RunCleanupEnd \/ CleanupWorkerMode
               \/ PerformOneClickProgress \/ PerformOneClickRaise
               \/ CleanupWorkerExceptEnd \/ CleanupWorkerAfter)
  /\ WF_vars(MonitorProgress \/ MonitorProgressReschedule
               \/ CleanupCompleted \/ CleanupErrorCallback)

\* ------------------------------------------------ the V2 engine, called
\* perform_one_click_cleanup (v2_core_engine.py 367-443) called again and
\* again on one V2CleanupEngine, as V2ModernUI does with self.engine. A
\* snapshot and an operation result carry the number of the call that made
\* them.

MaxEngineCalls == 2

Operations == <<"temp_files", "browser_caches", "registry", "startup",
                "system_files", "memory">>

\* dataclasses.asdict: a new dictionary with one key per field.
AsDict(d) == [k \in DOMAIN d |-> d[k]]

\* Lines 367-371: the call begins and enters its try block.
PerformOneClickStart ==
  /\ engine_pc \in {"idle", "returned"}
  /\ engine_calls > 0
  /\ engine_calls' = engine_calls - 1
  /\ engine_call' = engine_call + 1
  /\ raised' = [msg |-> ""]
  /\ engine_result' = NoEngineResult
  /\ engine_pc' = "progress_5"
  /\ UNCHANGED <<before_state, after_state, cleanup_results, propagated,
                 sweepVars, guiVars, browserVars, brandingVars>>

\* Line 373: update_progress(5, ...) returns.
PerformOneClickProgress5 ==
  /\ engine_pc = "progress_5"
  /\ engine_pc' = "capture_before"
  /\ UNCHANGED <<before_state, after_state, cleanup_results, engine_call,
                 engine_calls, raised, propagated, engine_result,
                 sweepVars, guiVars, browserVars, brandingVars>>

\* Lines 374-379: capture_system_state returns a snapshot, then the results
\* are emptied.
PerformOneClickCaptureBefore ==
  /\ engine_pc = "capture_before"
  /\ before_state' = [call |-> engine_call, taken |-> "before"]
  /\ cleanup_results' = <<>>
  /\ engine_pc' = "operation"
  /\ UNCHANGED <<after_state, engine_call, engine_calls, raised, propagated,
                 engine_result, sweepVars, guiVars, browserVars, brandingVars>>

\* Lines 381-415: update_progress, the next of the six operations, append.
\* Each operation catches its own exceptions and returns a CleanupResult.
PerformOneClickOperation ==
  /\ engine_pc = "operation"
  /\ LET current_operation == Len(cleanup_results) + 1
     IN /\ cleanup_results' =
             Append(cleanup_results,
                    [operation |-> Operations[current_operation],
                     call |-> engine_call])
        /\ engine_pc' = IF current_operation = Len(Operations)
                        THEN "capture_after" ELSE "operation"
  /\ UNCHANGED <<before_state, after_state, engine_call, engine_calls, raised,
                 propagated, engine_result,
                 sweepVars, guiVars, browserVars, brandingVars>>

\* Lines 417-419.
PerformOneClickCaptureAfter ==
  /\ engine_pc = "capture_after"
  /\ after_state' = [call |-> engine_call, taken |-> "after"]
  /\ engine_pc' = "report"
  /\ UNCHANGED <<before_state, cleanup_results, engine_call, engine_calls,
                 raised, propagated, engine_result,
                 sweepVars, guiVars, browserVars, brandingVars>>

\* Lines 421-423: update_progress(95, ...) and the report.
PerformOneClickReport ==
  /\ engine_pc = "report"
  /\ engine_pc' = "progress_100"
  /\ UNCHANGED <<before_state, after_state, cleanup_results, engine_call,
                 engine_calls, raised, propagated, engine_result,
                 sweepVars, guiVars, browserVars, brandingVars>>

\* Lines 425-434: update_progress(100, ...) returns and the success
\* dictionary is returned.
PerformOneClickReturn ==
  /\ engine_pc = "progress_100"
  /\ engine_result' = [success |-> TRUE, error |-> "",
                       before_state |-> AsDict(before_state),
                       cleanup_results |-> [i \in 1..Len(cleanup_results) |->
                              AsDict(cleanup_results[i])],
                       call |-> engine_call]
  /\ engine_pc' = "returned"
  /\ UNCHANGED <<before_state, after_state, cleanup_results, engine_call,
                 engine_calls, raised, propagated,
                 sweepVars, guiVars, browserVars, brandingVars>>

\* The step at which the call stands raises: capture_system_state re-raises
\* what it caught (line 214); update_progress calls the callbacks of the
\* window, which change widgets from the worker thread and may raise; the
\* report divides and indexes.
PerformOneClickRaises ==
  /\ engine_pc \in {"progress_5", "capture_before", "operation",
                    "capture_after", "report", "progress_100"}
  /\ raised' = [msg |-> engine_pc]
  /\ engine_pc' = "except"
  /\ UNCHANGED <<before_state, after_state, cleanup_results, engine_call,
                 engine_calls, propagated, engine_result,
                 sweepVars, guiVars, browserVars, brandingVars>>

\* Variant: the handler lets the exception leave the function.
PerformOneClickExceptReraises ==
  /\ engine_pc = "except"
  /\ propagated' = TRUE
  /\ engine_pc' = "returned"
  /\ UNCHANGED <<before_state, after_state, cleanup_results, engine_call,
                 engine_calls, raised, engine_result,
                 sweepVars, guiVars, browserVars, brandingVars>>

\* Lines 436-443: except Exception as e.
PerformOneClickExcept ==
  /\ engine_pc = "except"
  /\ engine_result' = [success |-> FALSE, error |-> raised.msg,
                       before_state |-> IF before_state # NoState
                                        THEN AsDict(before_state)
                                        ELSE NoState,
                       cleanup_results |-> [i \in 1..Len(cleanup_results) |->
                              AsDict(cleanup_results[i])],
                       call |-> engine_call]
  /\ engine_pc' = "returned"
  /\ UNCHANGED <<before_state, after_state, cleanup_results, engine_call,
                 engine_calls, raised, propagated,
                 sweepVars, guiVars, browserVars, brandingVars>>

\* V2CleanupEngine.__init__ (lines 67-82).
InitEngine ==
  /\ SweepOff /\ GuiOff /\ BrowserOff /\ BrandingOff
  /\ EngineNew /\ engine_calls = MaxEngineCalls

NextEngine ==
  \/ PerformOneClickStart
  \/ PerformOneClickProgress5
  \/ PerformOneClickCaptureBefore
  \/ PerformOneClickOperation
  \/ PerformOneClickCaptureAfter
  \/ PerformOneClickReport
  \/ PerformOneClickReturn
  \/ PerformOneClickRaises
  \/ PerformOneClickExcept

SpecEngine == InitEngine /\ [][NextEngine]_vars

\* ------------------------------------------------ the browser cache sweep
\* BrowserCacheCleaner.clean_browser_cache (browser_cleaner.py 161-215) for
\* one browser with one cache path, while the browser and other processes
\* start and change the cache.

MaxCacheChanges == 1

\* str.lower on the process names that occur.
Lower(name) == CASE name = "CHROME.EXE" -> "chrome.exe"
                 [] name = "Chrome.exe" -> "chrome.exe"
                 [] name = "GoogleUpdate.exe" -> "googleupdate.exe"
                 [] OTHER -> name

\* A process of the browser runs.
Running == \E p \in processes : Lower(p) \in {"chrome.exe"}

\* Variant of is_browser_running that finds no process.
IsBrowserRunningNever == FALSE

\* is_browser_running (lines 76-93) with the process_names of Chrome
\* (lines 31-32).
IsBrowserRunning ==
  \E p \in processes :
    Lower(p) \in {Lower(n) : n \in {"chrome.exe", "GoogleUpdate.exe"}}

\* The cache path holds two files and a subdirectory with one file; another
\* process may add a third file.
TopFiles == {"data_0", "data_1", "data_2"}
CacheSizeOf(f) == CASE f = "data_0" -> 1
                    [] f = "data_1" -> 2
                    [] f = "data_2" -> 4
                    [] OTHER -> 8

RECURSIVE SumCacheSizes(_)
SumCacheSizes(S) == IF S = {} THEN 0
                    ELSE LET f == CHOOSE x \in S : TRUE
                         IN CacheSizeOf(f) + SumCacheSizes(S \ {f})

\* get_directory_size (lines 111-125): the sizes of the files rglob finds; a
\* tree that cannot be listed counts as empty.
GetDirectorySize == IF cache_unreadable THEN 0 ELSE SumCacheSizes(cache_files)

\* Lines 161-179: the safety check. A running browser is refused unless
\* force is given.
CleanBrowserCacheStart ==
  /\ browser_pc = "idle"
  /\ \E f \in BOOLEAN :
       /\ force' = f
       /\ ranAtCheck' = Running
       /\ IF ~f /\ IsBrowserRunning
          THEN /\ browser_result' = [success |-> FALSE, error |-> "running",
                                     size_freed |-> 0]
               /\ browser_pc' = "returned"
          ELSE /\ browser_pc' = "safe_remove"
               /\ UNCHANGED browser_result
  /\ UNCHANGED <<processes, cache_present, cache_unreadable, cache_files,
                 cache_subdir, held, initial_size, listing, files_removed,
                 removal, browsers_cleaned, cache_size_freed, removedByCall,
                 cache_changes, sweepVars, guiVars, engineVars, brandingVars>>

\* Lines 131-132 and 201-215: the cache path does not exist.
SafeRemoveCacheDirectoryMissing ==
  /\ browser_pc = "safe_remove"
  /\ ~cache_present
  /\ removal' = [success |-> FALSE, size_freed |-> 0]
  /\ browser_result' = [success |-> FALSE, error |-> "", size_freed |-> 0]
  /\ browser_pc' = "returned"
  /\ UNCHANGED <<processes, cache_present, cache_unreadable, cache_files,
                 cache_subdir, held, force, initial_size, listing,
                 files_removed, browsers_cleaned, cache_size_freed, ranAtCheck,
                 removedByCall, cache_changes,
                 sweepVars, guiVars, engineVars, brandingVars>>

\* Lines 134-139: the first measurement, then iterdir lists the path.
SafeRemoveCacheDirectoryList ==
  /\ browser_pc = "safe_remove"
  /\ cache_present
  /\ initial_size' = GetDirectorySize
  /\ files_removed' = 0
  /\ IF cache_unreadable
     THEN /\ browser_pc' = "except"
          /\ listing' = {}
     ELSE /\ browser_pc' = "iterdir"
          /\ listing' = (cache_files \cap TopFiles)
                          \cup (IF cache_subdir THEN {"index-dir"} ELSE {})
  /\ UNCHANGED <<processes, cache_present, cache_unreadable, cache_files,
                 cache_subdir, held, force, removal, browser_result,
                 browsers_cleaned, cache_size_freed, ranAtCheck, removedByCall,
                 cache_changes, sweepVars, guiVars, engineVars, brandingVars>>

\* shutil.rmtree(item, ignore_errors=True): the files below item it removes.
Rmtree == (cache_files \cap {"index-dir/index"}) \ held

\* Lines 139-149: one item of the listing. A file is unlinked, a directory
\* is removed as far as it can be; an item that is gone is neither.
SafeRemoveCacheDirectoryItem ==
  /\ browser_pc = "iterdir"
  /\ \E it \in listing :
       /\ listing' = listing \ {it}
       /\ IF it \in cache_files
          THEN IF it \in held
               THEN UNCHANGED <<cache_files, cache_subdir, files_removed,
                                removedByCall>>
               ELSE /\ cache_files' = cache_files \ {it}
                    /\ removedByCall' = removedByCall \cup {it}
                    /\ files_removed' = files_removed + 1
                    /\ UNCHANGED cache_subdir
          ELSE IF it = "index-dir" /\ cache_subdir
               THEN /\ cache_files' = cache_files \ Rmtree
                    /\ removedByCall' = removedByCall \cup Rmtree
                    /\ cache_subdir' =
                         ((cache_files \cap {"index-dir/index"}) \ Rmtree
                            # {})
                    /\ files_removed' = files_removed + 1
               ELSE UNCHANGED <<cache_files, cache_subdir, files_removed,
                                removedByCall>>
  /\ UNCHANGED <<processes, cache_present, cache_unreadable, held, force,
                 browser_pc, initial_size, removal, browser_result,
                 browsers_cleaned, cache_size_freed, ranAtCheck, cache_changes,
                 sweepVars, guiVars, engineVars, brandingVars>>

\* Variant: the emptied cache directory is removed as well.
SafeRemoveCacheDirectoryFinishRmdir ==
  /\ browser_pc = "iterdir"
  /\ listing = {}
  /\ LET size_freed == initial_size - GetDirectorySize
     IN /\ removal' = [success |-> TRUE, size_freed |-> size_freed]
        /\ browser_result' = [success |-> TRUE, error |-> "",
                              size_freed |-> size_freed]
        /\ browsers_cleaned' = browsers_cleaned + 1
        /\ cache_size_freed' = cache_size_freed + size_freed
  /\ cache_present' = (cache_files # {} \/ cache_subdir)
  /\ browser_pc' = "returned"
  /\ UNCHANGED <<processes, cache_unreadable, cache_files, cache_subdir, held,
                 force, initial_size, listing, files_removed, ranAtCheck,
                 removedByCall, cache_changes,
                 sweepVars, guiVars, engineVars, brandingVars>>

\* Lines 151-155 and 198-215: the second measurement, the difference is
\* returned and added to the counters.
SafeRemoveCacheDirectoryFinish ==
  /\ browser_pc = "iterdir"
  /\ listing = {}
  /\ LET size_freed == initial_size - GetDirectorySize
     IN /\ removal' = [success |-> TRUE, size_freed |-> size_freed]
        /\ browser_result' = [success |-> TRUE, error |-> "",
                              size_freed |-> size_freed]
        /\ browsers_cleaned' = browsers_cleaned + 1
        /\ cache_size_freed' = cache_size_freed + size_freed
  /\ browser_pc' = "returned"
  /\ UNCHANGED <<processes, cache_present, cache_unreadable, cache_files,
                 cache_subdir, held, force, initial_size, listing,
                 files_removed, ranAtCheck, removedByCall, cache_changes,
                 sweepVars, guiVars, engineVars, brandingVars>>

\* Lines 157-159 and 201-215: iterdir raised.
SafeRemoveCacheDirectoryExcept ==
  /\ browser_pc = "except"
  /\ removal' = [success |-> FALSE, size_freed |-> 0]
  /\ browser_result' = [success |-> FALSE, error |-> "", size_freed |-> 0]
  /\ browser_pc' = "returned"
  /\ UNCHANGED <<processes, cache_present, cache_unreadable, cache_files,
                 cache_subdir, held, force, initial_size, listing,
                 files_removed, browsers_cleaned, cache_size_freed, ranAtCheck,
                 removedByCall, cache_changes,
                 sweepVars, guiVars, engineVars, brandingVars>>

\* The user starts the browser while the call runs.
BrowserStarts ==
  /\ browser_pc \in {"safe_remove", "iterdir", "except"}
  /\ cache_changes < MaxCacheChanges
  /\ ~Running
  /\ cache_changes' = cache_changes + 1
  /\ \E p \in {"chrome.exe", "CHROME.EXE"} : processes' = processes \cup {p}
  /\ UNCHANGED <<cache_present, cache_unreadable, cache_files, cache_subdir,
                 held, force, browser_pc, initial_size, listing, files_removed,
                 removal, browser_result, browsers_cleaned, cache_size_freed,
                 ranAtCheck, removedByCall,
                 sweepVars, guiVars, engineVars, brandingVars>>

\* Another process writes a file into the cache while the call runs.
OtherProcessAdds ==
  /\ browser_pc \in {"safe_remove", "iterdir", "except"} /\ cache_present
  /\ cache_changes < MaxCacheChanges
  /\ cache_changes' = cache_changes + 1
  /\ \E f \in TopFiles \ cache_files :
       cache_files' = cache_files \cup {f}
  /\ UNCHANGED <<processes, cache_present, cache_unreadable, cache_subdir, held,
                 force, browser_pc, initial_size, listing, files_removed,
                 removal, browser_result, browsers_cleaned, cache_size_freed,
                 ranAtCheck, removedByCall,
                 sweepVars, guiVars, engineVars, brandingVars>>

\* Another process removes a file from the cache while the call runs.
OtherProcessRemoves ==
  /\ browser_pc \in {"safe_remove", "iterdir", "except"}
  /\ cache_changes < MaxCacheChanges
  /\ cache_changes' = cache_changes + 1
  /\ \E f \in cache_files \cap TopFiles :
       cache_files' = cache_files \ {f}
  /\ UNCHANGED <<processes, cache_present, cache_unreadable, cache_subdir, held,
                 force, browser_pc, initial_size, listing, files_removed,
                 removal, browser_result, browsers_cleaned, cache_size_freed,
                 ranAtCheck, removedByCall,
                 sweepVars, guiVars, engineVars, brandingVars>>

\* BrowserCacheCleaner.__init__ (lines 24-27) on a machine where the browser
\* may run, its cache may exist and some of its files may be held.
InitBrowser ==
  /\ SweepOff /\ GuiOff /\ EngineNew /\ engine_calls = 0 /\ BrandingOff
  /\ BrowserCleanerNew
  /\ processes \in {{"explorer.exe"}, {"explorer.exe", "chrome.exe"},
                    {"explorer.exe", "Chrome.exe"},
                    {"explorer.exe", "GoogleUpdate.exe"}}
  /\ cache_present \in BOOLEAN
  /\ cache_unreadable \in BOOLEAN
  /\ cache_unreadable => cache_present
  /\ IF cache_present
     THEN /\ cache_files = {"data_0", "data_1", "index-dir/index"}
          /\ cache_subdir = TRUE
          /\ held \in SUBSET {"data_0", "index-dir/index"}
     ELSE cache_files = {} /\ cache_subdir = FALSE /\ held = {}

NextBrowser ==
  \/ CleanBrowserCacheStart
  \/ SafeRemoveCacheDirectoryMissing
  \/ SafeRemoveCacheDirectoryList
  \/ SafeRemoveCacheDirectoryItem
  \/ SafeRemoveCacheDirectoryFinish
  \/ SafeRemoveCacheDirectoryExcept
  \/ BrowserStarts
  \/ OtherProcessAdds
  \/ OtherProcessRemoves

SpecBrowser == InitBrowser /\ [][NextBrowser]_vars

\* ------------------------------------------------ the branding configurator
\* BrandingManager and the handlers of BrandingConfiguratorGUI
\* (branding_config.py). A dictionary held inside another is an object of
\* the heap: copy() and {**a, **b} copy the top level only, so the copies
\* share the nested dictionaries.

MaxUserSteps == 4

\* What the user may type into or pick for a field.
Typed == [name |-> "Acme IT", website |-> "https://acme.example",
          primary |-> "#000000"]

\* set_pricing_tier: tier_features (lines 127-161).
tier_features ==
  [basic |-> [registry_cleanup |-> FALSE, network_cleanup |-> FALSE],
   professional |-> [registry_cleanup |-> TRUE, network_cleanup |-> FALSE],
   enterprise |-> [registry_cleanup |-> TRUE, network_cleanup |-> TRUE]]

\* The configuration by value, as json.dump writes it.
Dump(cfg) ==
  [company_info |-> heap[cfg.company_info], colors |-> heap[cfg.colors],
   features |-> heap[cfg.features], pricing_tier |-> cfg.pricing_tier]

\* {**self.default_config, **loaded_config}: a key of the file replaces the
\* key of the defaults, whatever it holds.
Merge(loaded_config) ==
  [k \in DOMAIN default_config |->
     IF k \in DOMAIN loaded_config
     THEN IF k \in Sections THEN ("loaded." \o k) ELSE loaded_config[k]
     ELSE default_config[k]]

\* BrandingManager.load_config (lines 69-82), called by __init__: json.load
\* builds the dictionaries of the file, then the top levels are merged.
LoadConfig ==
  /\ branding_pc = "new"
  /\ IF config_file \in {[missing |-> TRUE], [invalid |-> TRUE]}
     THEN /\ config' = default_config
          /\ UNCHANGED heap
     ELSE /\ config' = Merge(config_file)
          /\ heap' =
               [o \in Objects |->
                  IF \E k \in Sections \cap DOMAIN config_file :
                       o = ("loaded." \o k)
                  THEN config_file[CHOOSE k \in Sections \cap
                                     DOMAIN config_file :
                                     o = ("loaded." \o k)]
                  ELSE heap[o]]
  /\ branding_pc' = "loaded"
  /\ UNCHANGED <<config_file, fields, user_steps,
                 sweepVars, guiVars, engineVars, browserVars>>

\* The keys the tabs read when the window is built.
FieldsOf(h, cfg) ==
  [name |-> h[cfg.company_info].name,
   website |-> h[cfg.company_info].website,
   primary |-> h[cfg.colors].primary,
   registry_cleanup |-> h[cfg.features].registry_cleanup,
   network_cleanup |-> h[cfg.features].network_cleanup,
   pricing_tier |-> cfg.pricing_tier]

\* get_current_config (lines 404-428): the top level is copied, the values
\* of the fields are written into the nested dictionaries of the manager's
\* configuration.
GetCurrentConfigHeap(h, cfg, fs) ==
  [h EXCEPT ![cfg.company_info] = [name |-> fs.name, website |-> fs.website],
            ![cfg.colors] = [primary |-> fs.primary],
            ![cfg.features] = [registry_cleanup |-> fs.registry_cleanup,
                               network_cleanup |-> fs.network_cleanup]]

\* BrandingConfiguratorGUI.__init__ / setup_gui (lines 180-337): the Tk
\* variables take the values of the configuration, the preview is drawn. A
\* section without one of its keys raises KeyError and no window appears.
SetupGui ==
  /\ branding_pc = "loaded"
  /\ IF DOMAIN heap[config.company_info] = DOMAIN BuiltInDefaults.company_info
     THEN /\ fields' = FieldsOf(heap, config)
          /\ heap' = GetCurrentConfigHeap(heap, config, FieldsOf(heap, config))
          /\ branding_pc' = "mainloop"
     ELSE /\ branding_pc' = "KeyError"
          /\ UNCHANGED <<fields, heap>>
  /\ UNCHANGED <<config, config_file, user_steps,
                 sweepVars, guiVars, engineVars, browserVars>>

UserActs ==
  /\ branding_pc \in {"mainloop", "reset"}
  /\ user_steps < MaxUserSteps
  /\ user_steps' = user_steps + 1

\* The user types into an entry, picks a colour (pick_color, lines 339-344)
\* or ticks a feature: the Tk variable changes, nothing else.
EditField ==
  /\ UserActs
  /\ \/ \E k \in DOMAIN Typed : fields' = [fields EXCEPT ![k] = Typed[k]]
     \/ \E k \in DOMAIN BuiltInDefaults.features :
          fields' = [fields EXCEPT ![k] = ~@]
  /\ branding_pc' = "mainloop"
  /\ UNCHANGED <<heap, config, config_file,
                 sweepVars, guiVars, engineVars, browserVars>>

\* update_preview (lines 355-402).
UpdatePreview ==
  /\ UserActs
  /\ heap' = GetCurrentConfigHeap(heap, config, fields)
  /\ branding_pc' = "mainloop"
  /\ UNCHANGED <<config, config_file, fields,
                 sweepVars, guiVars, engineVars, browserVars>>

\* The user selects a tier: update_features_for_tier (lines 346-353) and
\* set_pricing_tier (lines 125-166), which saves the file.
UpdateFeaturesForTier ==
  /\ UserActs
  /\ \E tier \in DOMAIN tier_features :
       LET cfg == [config EXCEPT !.pricing_tier = tier,
                                 !.features = "tier_features"]
           h == [heap EXCEPT !["tier_features"] = tier_features[tier]]
       IN /\ config' = cfg
          /\ heap' = h
          /\ config_file' = [company_info |-> h[cfg.company_info],
                             colors |-> h[cfg.colors],
                             features |-> h[cfg.features],
                             pricing_tier |-> cfg.pricing_tier]
          /\ fields' = [fields EXCEPT
                          !.pricing_tier = tier,
                          !.registry_cleanup =
                             h["tier_features"].registry_cleanup,
                          !.network_cleanup =
                             h["tier_features"].network_cleanup]
  /\ branding_pc' = "mainloop"
  /\ UNCHANGED <<sweepVars, guiVars, engineVars, browserVars>>

\* BrandingConfiguratorGUI.save_config (lines 439-448).
SaveConfig ==
  /\ UserActs
  /\ LET h == GetCurrentConfigHeap(heap, config, fields)
         cfg == [config EXCEPT !.pricing_tier = fields.pricing_tier]
     IN /\ heap' = h
        /\ config' = cfg
        /\ config_file' = [company_info |-> h[cfg.company_info],
                           colors |-> h[cfg.colors],
                           features |-> h[cfg.features],
                           pricing_tier |-> cfg.pricing_tier]
  /\ branding_pc' = "mainloop"
  /\ UNCHANGED <<fields, sweepVars, guiVars, engineVars, browserVars>>

\* reset_config (lines 469-473), confirmed, with refresh_gui (475-498).
ResetConfig ==
  /\ UserActs
  /\ config' = default_config
  /\ fields' = FieldsOf(heap, default_config)
  /\ heap' = GetCurrentConfigHeap(heap, default_config,
                                  FieldsOf(heap, default_config))
  /\ branding_pc' = "reset"
  /\ UNCHANGED <<config_file, sweepVars, guiVars, engineVars, browserVars>>

\* BrandingManager.__init__ (lines 24-67) up to the call of load_config.
InitBranding ==
  /\ SweepOff /\ GuiOff /\ EngineNew /\ engine_calls = 0 /\ BrowserOff
  /\ heap =
      [o \in Objects |->
         IF o \in DefaultObjects
         THEN BuiltInDefaults[CHOOSE k \in Sections : o = "default." \o k]
         ELSE [unallocated |-> TRUE]]
  /\ config = default_config
  /\ config_file \in
       {[missing |-> TRUE], [invalid |-> TRUE],
        [pricing_tier |-> "professional"],
        [pricing_tier |-> "basic"],
        [company_info |-> [name |-> "Acme IT"]],
        [colors |-> [primary |-> "#000000"]],
        [company_info |-> [name |-> "Acme IT",
                           website |-> "https://acme.example"],
         colors |-> [primary |-> "#000000"],
         features |-> [registry_cleanup |-> FALSE, network_cleanup |-> FALSE],
         pricing_tier |-> "basic"]}
  /\ fields = NoFields
  /\ branding_pc = "new"
  /\ user_steps = 0

NextBranding ==
  \/ LoadConfig
  \/ SetupGui
  \/ EditField
  \/ UpdatePreview
  \/ UpdateFeaturesForTier
  \/ SaveConfig
  \/ ResetConfig

SpecBranding == InitBranding /\ [][NextBranding]_vars

\* ------------------------------------------------------------------ claims

IsV1 == entry \in {"clean_temp_files", "_clean_directory_recursive"}
IsV2 == entry = "_cleanup_temp_files"

\* The errors counter of the engine that runs.
ErrorsNow == cleanup_stats.errors_encountered + errors

\* Whether temp_size_freed holds the size of f (sizes are distinct powers of
\* two).
CountedInFreed(f) == (cleanup_stats.temp_size_freed \div SizeOf(f)) % 2 = 1

\* C1: in the V1 temp sweep a file whose lock check reports true (its rename
\* fails because another process holds it) is never unlinked by the sweep and
\* never adds to temp_files_deleted or temp_size_freed.
C1_LockedNeverDeleted ==
  IsV1 => /\ \A f \in locked :
               f \in exists /\ f \notin unlinked /\ ~CountedInFreed(f)
          /\ cleanup_stats.temp_files_deleted = Cardinality(unlinked \ locked)

\* A V1 sweep has ended: it met a locked file, skipped it and deleted others.
C1_Witness ==
  /\ IsV1 /\ pc = "done"
  /\ \E f \in locked : f \in judgedLocked /\ f \in visited
  /\ cleanup_stats.temp_files_deleted > 0

\* C2: every file the sweep skips because it is judged locked raises the
\* errors counter by exactly one.
C2_LockedSkipCountsError ==
  [][lockedSkips' = lockedSkips + 1
       => cleanup_stats'.errors_encountered
            = cleanup_stats.errors_encountered + 1]_vars

\* C3: the bytes-freed counter is the sum of the sizes of exactly the files
\* whose delete call succeeded, and the deleted counter is their number; a
\* file whose size read or delete call fails adds to neither.
C3_BytesFreedExact ==
  /\ IsV1 => /\ cleanup_stats.temp_size_freed = SumSizes(unlinked)
             /\ cleanup_stats.temp_files_deleted = Cardinality(unlinked)
  /\ IsV2 => /\ space_freed = SumSizes(unlinked)
             /\ files_deleted = Cardinality(unlinked)

\* A V1 sweep has ended in which one delete call failed and others succeeded.
C3_Witness ==
  /\ IsV1 /\ pc = "done"
  /\ \E f \in denied : f \in visited /\ f \in exists
  /\ cleanup_stats.errors_encountered > 0
  /\ cleanup_stats.temp_size_freed > 0

\* C4: files_deleted <= files_processed in every state of the V2 temp sweep.
C4_DeletedAtMostProcessed == files_deleted <= files_processed

\* A V2 sweep has ended that deleted some of the files it processed, not all.
C4_Witness ==
  /\ IsV2 /\ pc = "done"
  /\ 0 < files_deleted /\ files_deleted < files_processed

\* C5: _clean_directory_recursive with limit max_depth lists, visits, deletes
\* and removes nothing below a directory found at depth max_depth: whatever
\* lies deeper than max_depth is still there unless another process removed it.
C5_DepthLimit ==
  IsV1 => /\ \A n \in enumerated \cup visited \cup unlinked : n.lvl <= max_depth
          /\ \A d \in rmdired : d.lvl < max_depth
          /\ \A n \in Nodes :
               n.lvl > max_depth => n \in exists \/ n \in extRemoved
          /\ \A d \in Dirs : d.lvl >= max_depth => d \in exists

\* A sweep with max_depth = 0 has ended: the root's own file is deleted, the
\* file inside its subdirectory is untouched.
C5_Witness ==
  /\ entry = "_clean_directory_recursive" /\ pc = "done" /\ max_depth = 0
  /\ File("A", 0) \in unlinked
  /\ File("A", 1) \in exists /\ Dir("A", 0) \in visited

\* C6: the V2 temp sweep never deletes a file that lies more than max_depth
\* (default 3) directory levels below a temp root.
C6_V2DepthLimit ==
  IsV2 => \A f \in unlinked : f.lvl <= DefaultMaxDepth

\* C7: a directory that two configured roots resolve to is swept exactly once
\* by the multi-target sweep (V1 and V2).
C7_RootSweptOnce ==
  \A i, j \in 1..Len(sweptRoots) : sweptRoots[i] = sweptRoots[j] => i = j

\* C8: a failure on one entry never prevents the remaining entries from being
\* processed: when the sweep has ended, every entry that a listing returned
\* has been taken up by the loop.
C8_FailureDoesNotStopSweep ==
  pc = "done" => enumerated \subseteq visited

\* C9: working on an entry that another process has removed never raises the
\* errors counter.
C9_VanishedIsNoError ==
  [][(item # NoNode /\ item \in extRemoved) => ErrorsNow' = ErrorsNow]_vars

\* C10: a V1 sweep asked to sweep a root that does not exist or is no
\* directory tells its caller so: when it has ended, the errors counter, the
\* only error indicator it has, is raised.
C10_RootUnavailableReported ==
  (/\ pc = "done"
   /\ \/ entry = "clean_temp_files"
         /\ \E p \in ConfiguredV1 : ~IsExistingDir(p)
      \/ entry = "_clean_directory_recursive"
         /\ \E i \in 1..Len(sweptRoots) : sweptRoots[i] = NoNode)
  => cleanup_stats.errors_encountered > 0

\* The directories the call has swept as roots.
RootsSwept == {sweptRoots[i] : i \in 1..Len(sweptRoots)}

\* C11: in a multi-target sweep an unavailable root (missing, or no
\* directory) ends only its own sweep: when the call has returned, every
\* configured root that is an existing directory has been swept.
C11_OtherRootsStillSwept ==
  /\ (entry = "clean_temp_files" /\ pc = "done")
       => \A p \in ConfiguredV1 : IsExistingDir(p) => Resolve(p) \in RootsSwept
  /\ (entry = "_cleanup_temp_files" /\ pc = "done")
       => \A i \in 1..Len(ConfiguredV2) :
            IsExistingDir(ConfiguredV2[i])
              => Resolve(ConfiguredV2[i]) \in RootsSwept

\* A V1 call has returned whose first root, %TEMP%, is missing: the two
\* directories the other roots name were swept and lost files.
C11_Witness ==
  /\ entry = "clean_temp_files" /\ pc = "done"
  /\ environ.TEMP = MissingPath
  /\ RootsSwept = {Root("A"), Root("B")}
  /\ File("A", 0) \in unlinked /\ File("B", 0) \in unlinked

\* The entries below directory d that a listing has returned.
ListedBelow(d) == {n \in enumerated : n.root = d.root /\ n.lvl > d.lvl}

\* C12: the attempt to remove a directory (the emptiness check and rmdir made
\* when its sweep returns) happens only after every entry listed in the
\* directory and below it has been processed.
C12_RemovalAfterChildren ==
  [][(pc = "iter" /\ Len(stack) > 1 /\ Len(stack') < Len(stack))
       => ListedBelow(Top.directory) \subseteq visited]_vars

\* C13: the root directory of a sweep is never removed by the sweep, even
\* when the sweep deletes every entry in it.
C13_RootNeverRemoved ==
  \A r \in RootDirs : Root(r) \in exists /\ Root(r) \notin rmdired

\* A sweep has ended that deleted every entry of C:/Windows/Temp: the
\* directory is empty and still there.
C13_Witness ==
  /\ pc = "done" /\ Root("B") \in RootsSwept
  /\ File("B", 0) \in unlinked
  /\ ChildrenOf(Root("B")) \cap exists = {}

\* The subdirectories a sweep finds at a depth below its limit.
SweptSubdirs == {d \in Dirs \cap visited : 0 <= d.lvl /\ d.lvl < max_depth}

FilesIn(d) == {n \in ChildrenOf(d) : n.kind = "file"}

\* C14 as claimed: after a sweep without failures, every subdirectory at
\* depth < max_depth whose files were all deleted no longer exists.
C14_FilesDeletedDirGone ==
  (IsV1 /\ pc = "done" /\ Disturbances = 0)
    => \A d \in SweptSubdirs :
         FilesIn(d) \subseteq unlinked => d \notin exists

\* C14, amended: after a sweep without failures, every subdirectory at depth
\* < max_depth that was left with no entry at all (its files deleted and its
\* own subdirectories removed) no longer exists, and the files it held are
\* gone and counted in temp_files_deleted.
C14_EmptiedDirGone ==
  (IsV1 /\ pc = "done" /\ Disturbances = 0)
    => /\ \A d \in SweptSubdirs :
            ChildrenOf(d) \cap exists = {}
              => /\ d \notin exists /\ d \in rmdired
                 /\ FilesIn(d) \subseteq unlinked
                 /\ \A f \in FilesIn(d) : CountedInFreed(f)
       /\ cleanup_stats.temp_files_deleted = Cardinality(unlinked)

\* A sweep whose limit reaches the bottom of the tree has ended without a
\* failure: the innermost directory lost its file and was removed, and so was
\* every directory above it up to the root.
C14_Witness ==
  /\ IsV1 /\ pc = "done" /\ Disturbances = 0 /\ max_depth = TreeDepth
  /\ Dir("A", TreeDepth - 1) \in rmdired
  /\ File("A", TreeDepth) \in unlinked
  /\ Dir("A", 0) \in rmdired /\ Dir("A", 0) \notin exists

\* C15: a sweep run with remove_empty_dirs = false removes no directory at
\* all. _clean_directory_recursive takes no such switch, so the sweep a caller
\* gets who wants no directory removed is the only sweep there is.
C15_NoDirectoryRemoved ==
  IsV1 => rmdired = {} /\ Dirs \subseteq exists

\* C16: is_file_in_use answers True exactly when the rename of the file onto
\* its own name raises an OS error, False when it succeeds, and the check
\* leaves the files on disk as they were.
C16_LockCheckTotal ==
  [][(pc = "sdf_inuse" /\ pc' # "sdf_inuse")
       => /\ exists' = exists
          /\ (lockedSkips' = lockedSkips + 1) <=> RenameRaises(item)
          /\ (pc' = "sdf_stat") <=> ~RenameRaises(item)]_vars

\* The check has answered True for a file whose rename failed because the
\* file was gone, and False for others, which the sweep then deleted.
C16_Witness ==
  /\ IsV1
  /\ \E f \in judgedLocked : f \in extRemoved
  /\ unlinked # {}

\* C20: clean_temp_files returns the number and the size of the files
\* deleted in the sweeps of that call, and nothing of what earlier calls on
\* the same instance deleted.
C20_ResultOfThisCall ==
  (entry = "clean_temp_files" /\ pc = "done")
    => /\ result.files_deleted = Cardinality(unlinked \ unlinkedBefore)
       /\ result.size_freed_mb = InMB(SumSizes(unlinked \ unlinkedBefore))

\* A second call on the instance has returned: it deleted the one file that
\* was held open during the first call, which had deleted others.
C20_Witness ==
  /\ entry = "clean_temp_files" /\ pc = "done"
  /\ unlinkedBefore # {}
  /\ result.files_deleted = 1
  /\ cleanup_stats.temp_files_deleted > 1

\* C17: during one cleanup run the percentages passed to the progress
\* callback never decrease: no notification of the run carries a smaller
\* percentage than an earlier one.
C17_ProgressNonDecreasing ==
  \A i, j \in 1..Len(progress_log) :
    i < j => progress_log[i] <= progress_log[j]

\* C18: the progress bar and the status widgets are changed by the foreground
\* thread only, never by a cleanup worker thread.
C18_WidgetsOnForegroundOnly == widgetWriters \subseteq {MainThread}

\* C19: at no time are two cleanup worker threads alive, and a start request
\* made while a worker is alive starts no worker and changes nothing of the
\* cleanup: thread, queue, timers, button and progress stay as they are.
C19_SingleWorker ==
  [][/\ Cardinality(AliveWorkers') <= 1
     /\ (requests' # requests /\ AliveWorkers # {})
          => UNCHANGED <<workers, cleanup_thread, progress_queue, after_calls,
                         button, progress_shown, progress_log, ui_pc>>]_vars

\* A start request was refused while the first worker ran; after that worker
\* had finished, the next request started the second one.
C19_Witness ==
  /\ refusals = 1 /\ Len(workers) = 2
  /\ AliveWorkers = {2}

\* C21: the totals that run_full_cleanup reports cover only that run: files
\* deleted, size freed and errors of a second run on the same instance hold
\* none of the first run's counts.
C21_SummaryOfThisRun ==
  (entry = "clean_temp_files" /\ pc = "summary")
    => /\ summary.total_files_deleted = Cardinality(unlinked \ unlinkedBefore)
       /\ summary.total_size_freed_mb
            = InMB(SumSizes(unlinked \ unlinkedBefore))
       /\ summary.total_errors = cleanup_stats.errors_encountered
                                   - initial_stats.errors_encountered

\* C22: perform_one_click_cleanup never lets an exception leave it: whenever
\* a step of the call raised, the call returns a dictionary with success
\* False that carries the text of that exception.
C22_NeverPropagates ==
  /\ ~propagated
  /\ (engine_pc = "returned" /\ raised # [msg |-> ""])
       => /\ engine_result.success = FALSE
          /\ engine_result.error = raised.msg
          /\ engine_result.call = engine_call
  /\ (engine_pc = "returned" /\ raised = [msg |-> ""] /\ engine_call > 0)
       => engine_result.success = TRUE

\* A call has returned after its report generation raised.
C22_Witness ==
  /\ engine_pc = "returned" /\ raised.msg = "report"
  /\ engine_result.success = FALSE

C23_SizeFreedIsWhatWasRemoved ==
  (browser_pc = "returned" /\ removal.success)
    => /\ removal.size_freed = SumCacheSizes(removedByCall)
       /\ removal.size_freed >= 0

\* C24: with force = False nothing is removed from the cache of a browser
\* while one of its processes runs, and a call that finds the browser running
\* returns success False with size_freed 0.
C24_RunningBrowserNotCleaned ==
  [][(~force' /\ Running /\ Running')
       => /\ removedByCall' = removedByCall
          /\ (browser_pc' = "returned" /\ browser_pc # "returned")
               => (~browser_result'.success
                   /\ browser_result'.size_freed = 0)]_vars

\* C24, amended: with force = False a call whose check finds the browser
\* running removes nothing and returns success False with size_freed 0.
C24_RunningAtCheckNotCleaned ==
  (ranAtCheck /\ ~force)
    => /\ browser_pc = "returned"
       /\ removedByCall = {}
       /\ ~browser_result.success
       /\ browser_result.size_freed = 0

\* A call without force has been refused because the browser, started under
\* a differently cased image name, runs, and its cache is full.
C24_Witness ==
  /\ browser_pc = "returned" /\ ~force /\ ranAtCheck
  /\ "Chrome.exe" \in processes
  /\ cache_present /\ cache_files # {}

\* C25: safe_remove_cache_directory preserves the cache directory itself:
\* no step of a call on an existing cache path removes the path.
C25_CacheDirectoryPreserved ==
  [][cache_present => cache_present']_vars

\* A call has emptied an existing cache directory and returned success; a
\* call on an unreadable one has returned failure.
C25_Witness ==
  /\ browser_pc = "returned" /\ cache_present
  /\ \/ removal.success /\ cache_files = {} /\ ~cache_subdir
     \/ ~removal.success /\ cache_unreadable

\* C26: a confirmed reset_config makes the configuration of the manager
\* equal, in every nested field, to the built-in defaults, after any edits,
\* previews, tier changes and saves.
C26_ResetRestoresDefaults ==
  branding_pc = "reset" => Dump(config) = BuiltInDefaults

\* C27: after load_config every key of the default configuration, nested
\* keys included, is present in config.
C27_AllDefaultKeysPresent ==
  branding_pc \in {"loaded", "KeyError"}
    => /\ DOMAIN config = DOMAIN BuiltInDefaults
       /\ \A k \in Sections :
            DOMAIN BuiltInDefaults[k] \subseteq DOMAIN heap[config[k]]

\* C28: clean_temp_files deletes files only beneath the configured temp
\* directories: an unset or empty TEMP or TMP adds no sweep root, and no file
\* of the working directory is deleted.
C28_OnlyTempDirsSwept ==
  entry = "clean_temp_files"
    => /\ \A f \in unlinked : f.root # "W"
       /\ \A i \in 1..Len(sweptRoots) : sweptRoots[i] # Root("W")
       /\ File("W", 0) \in exists

\* C30: every cleanup started from a window finishes in the foreground: once
\* the n-th worker thread has ended, cleanup_completed or cleanup_error runs
\* for it and enables the start button again, and no run is completed twice.
C30_EveryRunCompletes ==
  LET Ended == {t \in 1..Len(workers) :
                 workers[t].pc \in {"finished", "except"}}
  IN /\ \A n \in 1..MaxStartRequests :
          (Cardinality(Ended) >= n) ~> (completions >= n)
     /\ [](completions <= Cardinality(Ended))

====
